---- MODULE Spec2Model ----
(***************************************************************************)
(* A model of dav354/adt (lobbyregister_ingestor): the value conversion,   *)
(* the schema inference and the three writers that put a JSON document     *)
(* into relational tables (persistence.sync_table, ingest.persist_node     *)
(* and writer.ingest_entry).                                               *)
(*                                                                         *)
(* JSON values and column values are tagged records:                       *)
(*   [t |-> "null"]                 None                                   *)
(*   [t |-> "bool",  b |-> TRUE]    a bool                                 *)
(*   [t |-> "int",   i |-> 5]       an int                                 *)
(*   [t |-> "float", tenths |-> 15] the float 1.5                          *)
(*   [t |-> "float", special |-> "inf"]  float('inf') / float('nan')       *)
(*   [t |-> "str",   s |-> <<"a","b">>]  the str "ab", one entry per char  *)
(*   [t |-> "datetime", s |-> ...]  a datetime, by its normalised text     *)
(*   [t |-> "list",  items |-> <<...>>]                                    *)
(*   [t |-> "obj",   f |-> [key |-> value]]   a dict                       *)
(***************************************************************************)
EXTENDS Integers, Sequences, FiniteSets, TLC

VARIABLES
    conv,       \* the conversion under test: function, column type, value, result
    inf,        \* the inference under test: the list given to _infer_array, its node
    writer,     \* which writer this run uses
    sample,     \* the item property of the sample the table forest was built from
    db,         \* the committed database: table name -> set of rows
    nextId,     \* the tables' id sequences: table name -> next id
    history,    \* the transactions ended so far, oldest first: outcome, document, row id, statements
    last,       \* the outcome of the last transaction, committed or not
    mrg,        \* the type merging under test: the types merged into one field so far
    built,      \* the table building under test: the builder, its input, what it built
    req,        \* one call of _request_json: the client, its budget, the requests so far
    pag,        \* one iteration over the pages of the register entries
    pre,        \* iter_register_entries of api.py: the fetch task, its queue, the consumer
    ing         \* one ingestion run: run_ingestion of __main__ (the producer, the queue,
                \* the consumers) or of ingest (the entry and its version tasks)

vars == <<conv, inf, writer, sample, db, nextId, history, last, mrg, built, req, pag, pre, ing>>

----------------------------------------------------------------------------
(* JSON values *)

Null == [t |-> "null"]
JBool(b) == [t |-> "bool", b |-> b]
JInt(i) == [t |-> "int", i |-> i]
JFloat(tenths) == [t |-> "float", tenths |-> tenths]
JInf == [t |-> "float", special |-> "inf"]
JNan == [t |-> "float", special |-> "nan"]
JStr(s) == [t |-> "str", s |-> s]
JDateTime(s) == [t |-> "datetime", s |-> s]
JList(items) == [t |-> "list", items |-> items]
JObj(f) == [t |-> "obj", f |-> f]
EmptyObj == JObj([k \in {} |-> Null])

\* An exception leaving the function instead of a value.
Raise(exc) == [t |-> "raise", exc |-> exc]

IsObj(v) == v.t = "obj"
IsList(v) == v.t = "list"
IsStrV(v) == v.t = "str"

\* dict.get(key): None for a missing key.
Get(obj, key) == IF key \in DOMAIN obj.f THEN obj.f[key] ELSE Null

----------------------------------------------------------------------------
(* Strings: sequences of one-character strings *)

Digits == {"0", "1", "2", "3", "4", "5", "6", "7", "8", "9"}
Spaces == {" "}

DigitVal(c) ==
    CASE c = "0" -> 0 [] c = "1" -> 1 [] c = "2" -> 2 [] c = "3" -> 3
      [] c = "4" -> 4 [] c = "5" -> 5 [] c = "6" -> 6 [] c = "7" -> 7
      [] c = "8" -> 8 [] c = "9" -> 9

\* str.lower() on one character.
LowerChar(c) ==
    CASE c = "A" -> "a" [] c = "B" -> "b" [] c = "C" -> "c" [] c = "D" -> "d"
      [] c = "E" -> "e" [] c = "F" -> "f" [] c = "G" -> "g" [] c = "H" -> "h"
      [] c = "I" -> "i" [] c = "J" -> "j" [] c = "K" -> "k" [] c = "L" -> "l"
      [] c = "M" -> "m" [] c = "N" -> "n" [] c = "O" -> "o" [] c = "P" -> "p"
      [] c = "Q" -> "q" [] c = "R" -> "r" [] c = "S" -> "s" [] c = "T" -> "t"
      [] c = "U" -> "u" [] c = "V" -> "v" [] c = "W" -> "w" [] c = "X" -> "x"
      [] c = "Y" -> "y" [] c = "Z" -> "z"
      [] OTHER -> c

Lower(s) == [i \in 1..Len(s) |-> LowerChar(s[i])]

RECURSIVE LStrip(_)
LStrip(s) == IF s # <<>> /\ Head(s) \in Spaces THEN LStrip(Tail(s)) ELSE s

RECURSIVE RStrip(_)
RStrip(s) ==
    IF s # <<>> /\ s[Len(s)] \in Spaces THEN RStrip(SubSeq(s, 1, Len(s) - 1)) ELSE s

\* str.strip()
Strip(s) == RStrip(LStrip(s))

AllDigits(s) == \A i \in 1..Len(s) : s[i] \in Digits

\* str.isdigit(): non-empty and digits only.
IsDigitStr(s) == s # <<>> /\ AllDigits(s)

RECURSIVE DigitsValue(_)
DigitsValue(s) ==
    IF s = <<>> THEN 0 ELSE 10 * DigitsValue(SubSeq(s, 1, Len(s) - 1)) + DigitVal(s[Len(s)])

\* The text int(str) accepts: surrounding blanks, an optional sign, digits.
IntBody(s) == IF s # <<>> /\ Head(s) \in {"-", "+"} THEN Tail(s) ELSE s
IsIntText(s) == IsDigitStr(IntBody(Strip(s)))
IntTextValue(s) ==
    LET b == Strip(s)
    IN  IF b # <<>> /\ Head(b) = "-" THEN 0 - DigitsValue(IntBody(b)) ELSE DigitsValue(IntBody(b))

\* The index of the first "." of s, or 0.
DotAt(s) == IF \E i \in 1..Len(s) : s[i] = "." THEN CHOOSE i \in 1..Len(s) : s[i] = "." /\ \A j \in 1..(i - 1) : s[j] # "." ELSE 0

\* The text float(str) accepts: blanks, sign, digits with at most one "." and
\* at most one fraction digit kept (the model's floats are tenths), or inf / nan.
FloatSpecial(s) ==
    LET b == Lower(IntBody(Strip(s)))
    IN  IF b \in {<<"i", "n", "f">>, <<"i", "n", "f", "i", "n", "i", "t", "y">>} THEN "inf"
        ELSE IF b = <<"n", "a", "n">> THEN "nan"
        ELSE "no"

IsDecimalText(s) ==
    LET b == IntBody(Strip(s))
        d == DotAt(b)
    IN  IF d = 0 THEN IsDigitStr(b)
        ELSE /\ AllDigits(SubSeq(b, 1, d - 1))
             /\ AllDigits(SubSeq(b, d + 1, Len(b)))
             /\ Len(b) > 1

DecimalTenths(s) ==
    LET st == Strip(s)
        b == IntBody(st)
        d == DotAt(b)
        whole == IF d = 0 THEN DigitsValue(b) ELSE DigitsValue(SubSeq(b, 1, d - 1))
        frac == IF d = 0 \/ d = Len(b) THEN 0 ELSE DigitVal(b[d + 1])
        mag == 10 * whole + frac
    IN  IF st # <<>> /\ Head(st) = "-" THEN 0 - mag ELSE mag

\* str.replace("Z", "+00:00")
RECURSIVE ReplaceZ(_)
ReplaceZ(s) ==
    IF s = <<>> THEN <<>>
    ELSE IF Head(s) = "Z" THEN <<"+", "0", "0", ":", "0", "0">> \o ReplaceZ(Tail(s))
    ELSE <<Head(s)>> \o ReplaceZ(Tail(s))

\* s matches a pattern: "d" stands for a digit, any other entry for itself.
MatchPattern(s, p) ==
    /\ Len(s) = Len(p)
    /\ \A i \in 1..Len(p) : IF p[i] = "d" THEN s[i] \in Digits ELSE s[i] = p[i]

DatePattern == <<"d", "d", "d", "d", "-", "d", "d", "-", "d", "d">>
TimePattern == <<"d", "d", ":", "d", "d", ":", "d", "d">>
OffsetPattern == <<"+", "d", "d", ":", "d", "d">>

TwoDigits(s, i) == 10 * DigitVal(s[i]) + DigitVal(s[i + 1])

DateOk(s) ==
    /\ MatchPattern(s, DatePattern)
    /\ TwoDigits(s, 6) \in 1..12
    /\ TwoDigits(s, 9) \in 1..31

TimeOk(s) ==
    /\ MatchPattern(s, TimePattern)
    /\ TwoDigits(s, 1) \in 0..23
    /\ TwoDigits(s, 4) \in 0..59
    /\ TwoDigits(s, 7) \in 0..59

\* What datetime.fromisoformat accepts, of the shapes the model's texts have: a
\* date, a date with "T" or " " and a time, and the same with a UTC offset.
FromIsoFormatOk(s) ==
    \/ DateOk(s)
    \/ /\ Len(s) = 19
       /\ DateOk(SubSeq(s, 1, 10)) /\ s[11] \in {"T", " "} /\ TimeOk(SubSeq(s, 12, 19))
    \/ /\ Len(s) = 25
       /\ DateOk(SubSeq(s, 1, 10)) /\ s[11] \in {"T", " "} /\ TimeOk(SubSeq(s, 12, 19))
       /\ MatchPattern(SubSeq(s, 20, 25), OffsetPattern)

\* _as_datetime: the datetime, or None when fromisoformat raises.
as_datetime(s) ==
    IF FromIsoFormatOk(ReplaceZ(s)) THEN JDateTime(ReplaceZ(s)) ELSE Null

----------------------------------------------------------------------------
(* Python's int(), float() and str() on a JSON value *)

\* int(value): TypeError and ValueError are told apart from OverflowError,
\* which the callers do not catch.
PyInt(v) ==
    CASE v.t = "bool" -> JInt(IF v.b THEN 1 ELSE 0)
      [] v.t = "int" -> v
      [] v.t = "float" ->
            IF "special" \in DOMAIN v
            THEN (IF v.special = "inf" THEN Raise("OverflowError") ELSE Raise("ValueError"))
            ELSE JInt(IF v.tenths >= 0 THEN v.tenths \div 10 ELSE 0 - ((0 - v.tenths) \div 10))
      [] v.t = "str" -> IF IsIntText(v.s) THEN JInt(IntTextValue(v.s)) ELSE Raise("ValueError")
      [] OTHER -> Raise("TypeError")

\* float(value)
PyFloat(v) ==
    CASE v.t = "bool" -> JFloat(IF v.b THEN 10 ELSE 0)
      [] v.t = "int" -> JFloat(10 * v.i)
      [] v.t = "float" -> v
      [] v.t = "str" ->
            IF FloatSpecial(v.s) = "inf" THEN JInf
            ELSE IF FloatSpecial(v.s) = "nan" THEN JNan
            ELSE IF IsDecimalText(v.s) THEN JFloat(DecimalTenths(v.s))
            ELSE Raise("ValueError")
      [] OTHER -> Raise("TypeError")

RECURSIVE NatText(_)
NatText(n) ==
    LET d == CHOOSE c \in Digits : DigitVal(c) = n % 10
    IN  IF n < 10 THEN <<d>> ELSE NatText(n \div 10) \o <<d>>

IntText(i) == IF i < 0 THEN <<"-">> \o NatText(0 - i) ELSE NatText(i)

\* str(value); a list or dict is rendered by its brackets only.
PyStr(v) ==
    CASE v.t = "bool" -> IF v.b THEN <<"T", "r", "u", "e">> ELSE <<"F", "a", "l", "s", "e">>
      [] v.t = "int" -> IntText(v.i)
      [] v.t = "float" ->
            IF "special" \in DOMAIN v
            THEN (IF v.special = "inf" THEN <<"i", "n", "f">> ELSE <<"n", "a", "n">>)
            ELSE (IF v.tenths < 0 THEN <<"-">> ELSE <<>>)
                 \o NatText((IF v.tenths < 0 THEN 0 - v.tenths ELSE v.tenths) \div 10)
                 \o <<".">>
                 \o NatText((IF v.tenths < 0 THEN 0 - v.tenths ELSE v.tenths) % 10)
      [] v.t = "datetime" -> v.s
      [] v.t = "list" -> <<"[", "]">>
      [] v.t = "obj" -> <<"{", "}">>
      [] OTHER -> <<>>

TrueTexts == {<<"t", "r", "u", "e">>, <<"1">>, <<"y", "e", "s">>}
FalseTexts == {<<"f", "a", "l", "s", "e">>, <<"0">>, <<"n", "o">>}

ScalarTypes == {"boolean", "integer", "number", "datetime", "text"}

----------------------------------------------------------------------------
(* persistence.convert_scalar *)

\* int(value) / float(value) inside "except (TypeError, ValueError): return None".
CatchTypeValue(r) ==
    IF r.t = "raise" /\ r.exc \in {"TypeError", "ValueError"} THEN Null ELSE r

convert_scalar(scalar_type, value) ==
    IF value = Null THEN Null
    ELSE CASE scalar_type = "boolean" ->
                IF value.t = "bool" THEN value
                ELSE IF value.t = "str"
                     THEN (IF Lower(Strip(value.s)) \in TrueTexts THEN JBool(TRUE)
                           ELSE IF Lower(Strip(value.s)) \in FalseTexts THEN JBool(FALSE)
                           ELSE Null)
                     ELSE Null
           [] scalar_type = "integer" -> CatchTypeValue(PyInt(value))
           [] scalar_type = "number" -> CatchTypeValue(PyFloat(value))
           [] scalar_type = "datetime" ->
                IF value.t = "datetime" THEN value
                ELSE IF value.t = "str" THEN as_datetime(value.s)
                ELSE Null
           [] OTHER -> IF value.t = "str" THEN value ELSE JStr(PyStr(value))

----------------------------------------------------------------------------
(* ingest.convert_value.  The column's OpenAPI schema is given by the scalar *)
(* type it maps to: {"type": "string", "format": "date-time"} is "datetime", *)
(* any other string "text".                                                  *)

\* float(value) inside "except ValueError: return None".
CatchValue(r) == IF r.t = "raise" /\ r.exc = "ValueError" THEN Null ELSE r

convert_value(scalar_type, value) ==
    IF value = Null THEN Null
    ELSE IF scalar_type = "datetime" /\ value.t = "datetime" THEN value
    ELSE IF scalar_type = "datetime" /\ value.t = "str" THEN as_datetime(value.s)
    ELSE IF scalar_type = "integer" /\ value.t = "str" /\ IsDigitStr(value.s)
         THEN JInt(DigitsValue(value.s))
    ELSE IF scalar_type = "number" /\ value.t = "str" THEN CatchValue(PyFloat(value))
    ELSE IF /\ scalar_type = "boolean" /\ value.t = "str"
            /\ Lower(Strip(value.s)) \in TrueTexts THEN JBool(TRUE)
    ELSE IF /\ scalar_type = "boolean" /\ value.t = "str"
            /\ Lower(Strip(value.s)) \in FalseTexts THEN JBool(FALSE)
    ELSE value

\* Whether a column of the given type stores the value: the driver raises on
\* any other (a str bound to a BIGINT parameter, a list bound to anything).
FitsColumn(scalar_type, v) ==
    \/ v = Null
    \/ scalar_type = "boolean" /\ v.t = "bool"
    \/ scalar_type = "integer" /\ v.t \in {"int", "bool"}
    \/ scalar_type = "number" /\ v.t \in {"int", "float", "bool"}
    \/ scalar_type = "datetime" /\ v.t = "datetime"
    \/ scalar_type = "text" /\ v.t = "str"

----------------------------------------------------------------------------
(* schema.py: the inference of a node tree from a sample.  A NodeObject's   *)
(* dicts are functions from property names; None is "None" for a scalar     *)
(* type and Null for a node.                                                *)

TYPE_ORDER == <<"boolean", "integer", "number", "datetime", "text">>

\* TYPE_ORDER.index(a)
TypeIndex(a) == CHOOSE i \in 1..Len(TYPE_ORDER) : TYPE_ORDER[i] = a

\* _is_iso_datetime
is_iso_datetime(s) == FromIsoFormatOk(ReplaceZ(s))

infer_scalar_type(value) ==
    CASE value.t = "bool" -> "boolean"
      [] value.t = "int" -> "integer"
      [] value.t = "float" -> "number"
      [] value.t = "str" ->
            IF (\E i \in 1..Len(value.s) : value.s[i] = "T") /\ is_iso_datetime(value.s)
            THEN "datetime" ELSE "text"
      [] OTHER -> "text"

\* A faulty merge_scalar_type, for C12: the type the field had stays.
MergeKeepsFirst(a, b) == a

\* A faulty merge_scalar_type, for C13: the last type seen wins.
MergeKeepsLast(a, b) == b

merge_scalar_type(a, b) ==
    IF a = b THEN a
    ELSE TYPE_ORDER[IF TypeIndex(a) > TypeIndex(b) THEN TypeIndex(a) ELSE TypeIndex(b)]

NodeScalar(scalar_type, nullable) == [scalar_type |-> scalar_type, nullable |-> nullable]

NodeArray(kind, scalar_type, object_node) ==
    [kind |-> kind, scalar_type |-> scalar_type, object_node |-> object_node]

NodeObject(path, scalars, objects, arrays) ==
    [path |-> path, scalars |-> scalars, objects |-> objects, arrays |-> arrays]

\* "x or 'text'" on an optional scalar type.
OrText(scalar_type) == IF scalar_type = "None" THEN "text" ELSE scalar_type

RECURSIVE merge_objects(_, _)
merge_objects(target, other) ==
    NodeObject(target.path,
        [name \in DOMAIN target.scalars \cup DOMAIN other.scalars |->
            IF name \notin DOMAIN other.scalars THEN target.scalars[name]
            ELSE IF name \notin DOMAIN target.scalars THEN other.scalars[name]
            ELSE NodeScalar(
                    merge_scalar_type(target.scalars[name].scalar_type,
                                      other.scalars[name].scalar_type),
                    target.scalars[name].nullable \/ other.scalars[name].nullable)],
        [name \in DOMAIN target.objects \cup DOMAIN other.objects |->
            IF name \notin DOMAIN other.objects THEN target.objects[name]
            ELSE IF name \notin DOMAIN target.objects THEN other.objects[name]
            ELSE merge_objects(target.objects[name], other.objects[name])],
        [name \in DOMAIN target.arrays \cup DOMAIN other.arrays |->
            IF name \notin DOMAIN other.arrays THEN target.arrays[name]
            ELSE IF name \notin DOMAIN target.arrays THEN other.arrays[name]
            ELSE IF target.arrays[name].kind = "scalar" /\ other.arrays[name].kind = "scalar"
                 THEN [target.arrays[name] EXCEPT !.scalar_type =
                          merge_scalar_type(OrText(target.arrays[name].scalar_type),
                                            OrText(other.arrays[name].scalar_type))]
                 ELSE target.arrays[name]])

RECURSIVE infer_object(_, _)
RECURSIVE infer_array(_, _)
RECURSIVE infer_items(_, _, _)

infer_object(value, path) ==
    NodeObject(path,
        [key \in {k \in DOMAIN value.f : ~IsObj(value.f[k]) /\ ~IsList(value.f[k])} |->
            NodeScalar(infer_scalar_type(value.f[key]), TRUE)],
        [key \in {k \in DOMAIN value.f : IsObj(value.f[k])} |->
            infer_object(value.f[key], Append(path, key))],
        [key \in {k \in DOMAIN value.f : IsList(value.f[k])} |->
            infer_array(value.f[key].items, Append(path, key))])

\* array_kind, scalar_type and object_node after the first n items of the loop.
infer_items(values, path, n) ==
    IF n = 0 THEN [array_kind |-> "None", scalar_type |-> "None", object_node |-> Null]
    ELSE LET acc == infer_items(values, path, n - 1)
             item == values[n]
         IN  IF IsObj(item)
             THEN [acc EXCEPT !.array_kind = "object",
                              !.object_node =
                                  IF acc.object_node = Null THEN infer_object(item, path)
                                  ELSE merge_objects(acc.object_node, infer_object(item, path))]
             ELSE [acc EXCEPT !.array_kind = "scalar",
                              !.scalar_type =
                                  IF acc.scalar_type = "None" THEN infer_scalar_type(item)
                                  ELSE merge_scalar_type(acc.scalar_type, infer_scalar_type(item))]

\* A faulty infer_array, for C15: an empty list is taken for an array of
\* objects without fields.
EmptyIsObjects(values, path) ==
    IF values = <<>>
    THEN NodeArray("object", "None",
                   NodeObject(path, [k \in {} |-> Null], [k \in {} |-> Null],
                              [k \in {} |-> Null]))
    ELSE NodeArray("scalar", OrText(infer_items(values, path, Len(values)).scalar_type), Null)

infer_array(values, path) ==
    IF values = <<>> THEN NodeArray("scalar", "text", Null)
    ELSE LET acc == infer_items(values, path, Len(values))
         IN  IF acc.array_kind = "object" /\ acc.object_node # Null
             THEN NodeArray("object", "None", acc.object_node)
             ELSE NodeArray("scalar", OrText(acc.scalar_type), Null)

\* The words of a JSON schema (type names, property names in "required")
\* are strings of one symbol: the code only compares them.
Word(w) == JStr(<<w>>)

\* _schema_type: the type as a string's symbols, <<>> for None.
schema_type(schema) ==
    IF IsList(Get(schema, "type"))
    THEN (IF SelectSeq(Get(schema, "type").items, LAMBDA t : t # Word("null")) = <<>>
          THEN <<>>
          ELSE Head(SelectSeq(Get(schema, "type").items, LAMBDA t : t # Word("null"))).s)
    ELSE IF IsStrV(Get(schema, "type")) THEN Get(schema, "type").s
    ELSE IF "enum" \in DOMAIN schema.f THEN <<"string">>
    ELSE IF "properties" \in DOMAIN schema.f \/ "additionalProperties" \in DOMAIN schema.f
         THEN <<"object">>
    ELSE IF "items" \in DOMAIN schema.f THEN <<"array">>
    ELSE <<>>

\* _schema_scalar_type
schema_scalar_type(schema) ==
    IF schema_type(schema) = <<"integer">> THEN "integer"
    ELSE IF schema_type(schema) = <<"number">> THEN "number"
    ELSE IF schema_type(schema) = <<"boolean">> THEN "boolean"
    ELSE IF schema_type(schema) = <<"string">> /\ Get(schema, "format") = Word("date-time")
         THEN "datetime"
    ELSE "text"

\* The subschemas under allOf, anyOf and oneOf that are dicts, in the order
\* the code visits them.
Subschemas(schema) ==
    SelectSeq((IF IsList(Get(schema, "allOf")) THEN Get(schema, "allOf").items ELSE <<>>)
                \o (IF IsList(Get(schema, "anyOf")) THEN Get(schema, "anyOf").items ELSE <<>>)
                \o (IF IsList(Get(schema, "oneOf")) THEN Get(schema, "oneOf").items ELSE <<>>),
              IsObj)

\* _collect_required: the names required by the schema or a subschema.
RECURSIVE collect_required(_)
collect_required(schema) ==
    (IF IsList(Get(schema, "required"))
     THEN {Get(schema, "required").items[i].s[1] : i \in DOMAIN Get(schema, "required").items}
     ELSE {})
        \cup UNION {collect_required(Subschemas(schema)[i]) : i \in DOMAIN Subschemas(schema)}

\* properties.update(...) over the first n subschemas, a later one winning.
RECURSIVE collect_properties(_)
RECURSIVE CollectedFrom(_, _)
CollectedFrom(subschemas, n) ==
    IF n = 0 THEN [k \in {} |-> Null]
    ELSE collect_properties(subschemas[n]) @@ CollectedFrom(subschemas, n - 1)

\* _collect_properties
collect_properties(schema) ==
    CollectedFrom(Subschemas(schema), Len(Subschemas(schema)))
        @@ (IF IsObj(Get(schema, "properties")) THEN Get(schema, "properties").f
            ELSE [k \in {} |-> Null])

RECURSIVE infer_schema_object(_, _)
RECURSIVE infer_schema_array(_, _)

\* The properties that are dicts, by the dict of the node they go to.
SchemaProperties(properties, types, scalar) ==
    {name \in DOMAIN properties :
        /\ IsObj(properties[name])
        /\ (schema_type(properties[name]) \in types) = ~scalar}

\* The node of the properties collected from the schema.
SchemaNode(properties, required, path) ==
    NodeObject(path,
        [name \in SchemaProperties(properties, {<<"object">>, <<"array">>}, TRUE) |->
            NodeScalar(schema_scalar_type(properties[name]), name \notin required)],
        [name \in SchemaProperties(properties, {<<"object">>}, FALSE) |->
            infer_schema_object(properties[name], Append(path, name))],
        [name \in SchemaProperties(properties, {<<"array">>}, FALSE) |->
            infer_schema_array(properties[name], Append(path, name))])

\* _infer_schema_object
infer_schema_object(schema, path) ==
    SchemaNode(collect_properties(schema), collect_required(schema), path)

\* _infer_schema_array
infer_schema_array(schema, path) ==
    IF ~IsObj(Get(schema, "items")) THEN NodeArray("scalar", "text", Null)
    ELSE IF schema_type(Get(schema, "items")) = <<"object">>
    THEN NodeArray("object", "None", infer_schema_object(Get(schema, "items"), path))
    ELSE IF schema_type(Get(schema, "items")) = <<"array">>
    THEN infer_schema_array(Get(schema, "items"), path)
    ELSE NodeArray("scalar", schema_scalar_type(Get(schema, "items")), Null)

\* _infer_schema: a dict with "properties" that is an object is read as a
\* JSON schema, anything else as a sample; a sample that is no dict has no
\* items().
infer_schema(sample_doc, root_name) ==
    IF /\ IsObj(sample_doc)
       /\ "properties" \in DOMAIN sample_doc.f
       /\ (Get(sample_doc, "type") = Word("object")
              \/ schema_type(sample_doc) \in {<<"object">>, <<>>})
    THEN infer_schema_object(sample_doc, <<root_name>>)
    ELSE IF IsObj(sample_doc) THEN infer_object(sample_doc, <<root_name>>)
    ELSE Raise("AttributeError")

\* A faulty sample_read, for C14: the run takes the properties out of the
\* sample as it reads them.
sample_consumed(sample_doc) == IF IsObj(sample_doc) THEN EmptyObj ELSE sample_doc

\* What a run of the inference leaves of the sample it was given: it reads
\* the dicts and lists and writes to none of them.
sample_read(sample_doc) == sample_doc

\* f with f[k] set to v, k added to its domain when missing (row[k] = v).
Put(f, k, v) == (k :> v) @@ f

----------------------------------------------------------------------------
(* schema.py and schema_builder.py: identifiers.  A name is a sequence of   *)
(* one-character strings, a path a sequence of names.                       *)

Uppers ==
    {"A", "B", "C", "D", "E", "F", "G", "H", "I", "J", "K", "L", "M",
     "N", "O", "P", "Q", "R", "S", "T", "U", "V", "W", "X", "Y", "Z"}

\* str.islower() or str.isdigit() on one character.
IsLowerOrDigit(c) == (LowerChar(c) = c /\ c \notin Digits \cup {"_", "-", "$"}) \/ c \in Digits

\* str.isalnum() on one character.
IsAlnum(c) == c \notin {"_", "-", "$"}

\* The characters appended for the first n characters of value: "_" before
\* an upper-case character that follows a lower-case one or a digit, then
\* the character in lower case, "_" for one that is not alphanumeric.
RECURSIVE SnakeChars(_, _)
SnakeChars(value, n) ==
    IF n = 0 THEN <<>>
    ELSE SnakeChars(value, n - 1)
            \o (IF value[n] \in Uppers /\ n > 1 /\ IsLowerOrDigit(value[n - 1])
                THEN <<"_">> ELSE <<>>)
            \o <<IF IsAlnum(value[n]) THEN LowerChar(value[n]) ELSE "_">>

\* while "__" in snake: snake = snake.replace("__", "_")
Collapse(s) == SelectSeq([i \in 1..Len(s) |-> IF i > 1 /\ s[i] = "_" /\ s[i - 1] = "_"
                                              THEN "" ELSE s[i]],
                         LAMBDA c : c # "")

\* str.rstrip("_")
RECURSIVE RStripUnderscore(_)
RStripUnderscore(s) ==
    IF s # <<>> /\ s[Len(s)] = "_" THEN RStripUnderscore(SubSeq(s, 1, Len(s) - 1)) ELSE s

\* str.lstrip("_")
RECURSIVE LStripUnderscore(_)
LStripUnderscore(s) == IF s # <<>> /\ Head(s) = "_" THEN LStripUnderscore(Tail(s)) ELSE s

\* _to_snake_case (schema.py) and to_snake_case (schema_builder.py)
to_snake_case(value) == LStripUnderscore(RStripUnderscore(Collapse(SnakeChars(value, Len(value)))))

\* sep.join(parts)
RECURSIVE Join(_, _)
Join(sep, parts) ==
    IF parts = <<>> THEN <<>>
    ELSE IF Len(parts) = 1 THEN parts[1]
    ELSE parts[1] \o sep \o Join(sep, Tail(parts))

MAX_IDENTIFIER_LENGTH == 63
DigestLength == 8   \* the hex digits of a digest of digest_size 4

\* s or t
OrElse(s, t) == IF s = <<>> THEN t ELSE s

\* The name cut to the length limit: a prefix of it without trailing "_",
\* "_" and the digest of the whole name.
Truncated(base, digest) ==
    OrElse(RStripUnderscore(SubSeq(base, 1, MAX_IDENTIFIER_LENGTH - DigestLength - 1)),
           SubSeq(base, 1, MAX_IDENTIFIER_LENGTH - DigestLength - 1))
        \o <<"_">> \o digest

----------------------------------------------------------------------------
(* The names the builders use, and the digests of the names that are cut.   *)

IdName == <<"i", "d">>
ValueName == <<"v", "a", "l", "u", "e">>
PositionName == <<"p", "o", "s", "i", "t", "i", "o", "n">>
ParentIdName == <<"p", "a", "r", "e", "n", "t", "_", "i", "d">>
Unnamed == <<"u", "n", "n", "a", "m", "e", "d">>
RegisterEntries == <<"r", "e", "g", "i", "s", "t", "e", "r", "_", "e", "n", "t", "r", "i", "e", "s">>

\* A property name of 50 characters: under the root it makes a table name
\* longer than the limit.
LongName(c) == [i \in 1..49 |-> "x"] \o <<c>>

\* blake2s(base, digest_size=4).hexdigest() for the names that are cut
blake2s(base) ==
    CASE base = RegisterEntries \o <<"_">> \o LongName("a") -> <<"6", "6", "9", "2", "5", "e", "2", "3">>
      [] base = RegisterEntries \o <<"_">> \o LongName("b") -> <<"3", "8", "d", "d", "3", "2", "9", "d">>
      [] base = RegisterEntries \o <<"_">> \o LongName("a") \o <<"_", "1">> -> <<"5", "e", "9", "6", "8", "3", "7", "4">>
      [] base = RegisterEntries \o <<"_">> \o LongName("b") \o <<"_", "1">> -> <<"d", "0", "7", "2", "7", "f", "a", "7">>
      [] OTHER -> <<"-", "-", "-", "-", "-", "-", "-", "-">>

\* blake2b(base, digest_size=4).hexdigest() for the names that are cut
blake2b(base) ==
    CASE base = RegisterEntries \o <<"_", "_">> \o LongName("a") -> <<"f", "4", "3", "8", "6", "1", "2", "5">>
      [] base = RegisterEntries \o <<"_", "_">> \o LongName("b") -> <<"e", "4", "d", "b", "f", "0", "2", "b">>
      [] OTHER -> <<"-", "-", "-", "-", "-", "-", "-", "-">>

Last4(parts) == IF Len(parts) > 4 THEN SubSeq(parts, Len(parts) - 3, Len(parts)) ELSE parts

NonEmpty(parts) == SelectSeq(parts, LAMBDA p : p # <<>>)

Snakes(parts) == [i \in 1..Len(parts) |-> to_snake_case(parts[i])]

Identifier(base) ==
    IF Len(base) <= MAX_IDENTIFIER_LENGTH THEN OrElse(base, Unnamed)
    ELSE Truncated(base, blake2s(base))

make_identifier(parts) == Identifier(Join(<<"_">>, NonEmpty(Last4(Snakes(NonEmpty(parts))))))

\* SchemaBuilder._table_name
TableName(base) ==
    IF Len(base) <= MAX_IDENTIFIER_LENGTH THEN base ELSE Truncated(base, blake2b(base))

table_name(path) == TableName(Join(<<"_", "_">>, path))

----------------------------------------------------------------------------
(* schema.py: _build_table.  A node to build is [path, properties] and a    *)
(* property [name, kind, properties], in the order of the node's dicts:     *)
(* kind "scalar" is an entry of scalars, "object" one of objects, "many"    *)
(* one of arrays with kind object, "scalar_array" one of arrays with kind   *)
(* scalar.  The registry is [tables_by_name, tables_by_path]; a table is    *)
(* referred to by its name, and "relations" and the position column are     *)
(* added to the registered table as the code adds them to the shared        *)
(* TableSpec object.                                                        *)

Range(s) == {s[i] : i \in DOMAIN s}

OfKind(properties, kinds) == SelectSeq(properties, LAMBDA p : p.kind \in kinds)

\* The node of a nested property: path + (prop,)
NodeOf(path, prop) == [path |-> Append(path, prop.name), properties |-> prop.properties]

\* while table_name in tables_by_name: table_name = make_identifier(path + [str(counter)])
RECURSIVE Allocate(_, _, _, _)
Allocate(name, names, parts, counter) ==
    IF name \notin names THEN name
    ELSE Allocate(make_identifier(Append(parts, NatText(counter))), names, parts, counter + 1)

\* The column name of a scalar property, given the columns so far.
ColumnName(columns, prop) ==
    IF make_identifier(<<prop>>) \in Range(columns)
    THEN make_identifier(<<prop, ValueName>>)
    ELSE make_identifier(<<prop>>)

\* The columns after the loop over the scalars.
RECURSIVE ScalarColumns(_, _)
ScalarColumns(columns, scalars) ==
    IF scalars = <<>> THEN columns
    ELSE ScalarColumns(Append(columns, ColumnName(columns, Head(scalars).name)), Tail(scalars))

\* make_identifier((parent_segment, "id")) for a parent with this path
ParentFk(path) == make_identifier(<<path[Len(path)], IdName>>)

\* The TableSpec of a node: columns holds "id" and the parent key.  nullable
\* and references run along the columns: whether the column takes NULL, and
\* the table whose id it references with ON DELETE CASCADE (<<>> for none).
NewTable(name, path, columns, scalars, parent_fk, relation_to_parent, parent) ==
    [name |-> name, path |-> path,
     columns |-> ScalarColumns(columns, scalars),
     nullable |-> [n \in 1..(Len(columns) + Len(scalars)) |-> n > Len(columns)],
     references |-> [n \in 1..(Len(columns) + Len(scalars)) |->
                        IF n = 2 /\ parent_fk # <<>> THEN parent ELSE <<>>],
     scalars |-> [n \in 1..Len(scalars) |->
                    [name |-> scalars[n].name,
                     column_name |-> ScalarColumns(columns, scalars)[Len(columns) + n]]],
     parent_fk |-> parent_fk, relation_to_parent |-> relation_to_parent,
     position_column |-> FALSE, scalar_array_type |-> "None",
     relations |-> <<>>, unique_columns |-> <<>>]

\* The TableSpec of an array of scalars.
ArrayTable(name, path, parent_fk, parent) ==
    [name |-> name, path |-> path,
     columns |-> <<IdName, parent_fk, PositionName, ValueName>>,
     nullable |-> <<FALSE, FALSE, FALSE, TRUE>>,
     references |-> <<<<>>, parent, <<>>, <<>>>>,
     scalars |-> <<[name |-> ValueName, column_name |-> ValueName]>>,
     parent_fk |-> parent_fk, relation_to_parent |-> "scalar_array",
     position_column |-> TRUE, scalar_array_type |-> "text",
     relations |-> <<>>, unique_columns |-> <<>>]

\* tables_by_name[name] = spec; tables_by_path[path] = spec
Register(reg, spec) ==
    [tables_by_name |-> Put(reg.tables_by_name, spec.name, spec),
     tables_by_path |-> Put(reg.tables_by_path, spec.path, spec.name)]

\* The table of a node that has none yet.
Created(reg, current, name, parent, relation_to_parent) ==
    [reg |-> Register(reg,
                NewTable(name, current.path,
                         IF parent = <<>> THEN <<IdName>>
                         ELSE <<IdName, ParentFk(reg.tables_by_name[parent].path)>>,
                         OfKind(current.properties, {"scalar"}),
                         IF parent = <<>> THEN <<>>
                         ELSE ParentFk(reg.tables_by_name[parent].path),
                         relation_to_parent, parent)),
     spec |-> name]

\* spec.relations.append(RelationSpec(name=prop, target=child_spec, ...))
Related(r, owner, prop, relation) ==
    [reg |-> [r.reg EXCEPT !.tables_by_name[owner].relations =
                Append(@, [name |-> prop, target |-> r.spec, relation |-> relation])],
     spec |-> owner]

\* if "position" not in child_spec.table.c: append it, position_column = True
EnsurePosition(r) ==
    IF PositionName \in Range(r.reg.tables_by_name[r.spec].columns) THEN r
    ELSE [r EXCEPT !.reg.tables_by_name[r.spec].columns = Append(@, PositionName),
                   !.reg.tables_by_name[r.spec].nullable = Append(@, FALSE),
                   !.reg.tables_by_name[r.spec].references = Append(@, <<>>),
                   !.reg.tables_by_name[r.spec].position_column = TRUE]

\* The dedicated table of an array of scalars of the table b.spec.
ScalarArray(b, path, prop) ==
    [reg |-> Register(b.reg,
                ArrayTable(Allocate(make_identifier(Append(path, prop)),
                                    DOMAIN b.reg.tables_by_name, Append(path, prop), 1),
                           Append(path, prop), ParentFk(path), b.spec)),
     spec |-> Allocate(make_identifier(Append(path, prop)),
                       DOMAIN b.reg.tables_by_name, Append(path, prop), 1)]

RECURSIVE build_table(_, _, _, _)
RECURSIVE BuildObjects(_, _, _)
RECURSIVE BuildArrays(_, _, _)

\* for prop, obj in current.objects.items()
BuildObjects(b, path, objects) ==
    IF objects = <<>> THEN b
    ELSE BuildObjects(Related(build_table(b.reg, NodeOf(path, Head(objects)), b.spec, "one"),
                              b.spec, Head(objects).name, "one"),
                      path, Tail(objects))

\* for prop, arr in current.arrays.items()
BuildArrays(b, path, arrays) ==
    IF arrays = <<>> THEN b
    ELSE IF Head(arrays).kind = "many"
    THEN BuildArrays(Related(EnsurePosition(build_table(b.reg, NodeOf(path, Head(arrays)),
                                                         b.spec, "many")),
                             b.spec, Head(arrays).name, "many"),
                     path, Tail(arrays))
    ELSE BuildArrays(Related(ScalarArray(b, path, Head(arrays).name),
                             b.spec, Head(arrays).name, "scalar_array"),
                     path, Tail(arrays))

\* _build_table: the registry after it and the name of the table it returns
build_table(reg, current, parent, relation_to_parent) ==
    IF current.path \in DOMAIN reg.tables_by_path
    THEN [reg |-> reg, spec |-> reg.tables_by_path[current.path]]
    ELSE BuildArrays(
            BuildObjects(
                Created(reg, current,
                        Allocate(make_identifier(current.path), DOMAIN reg.tables_by_name,
                                 current.path, 1),
                        parent, relation_to_parent),
                current.path, OfKind(current.properties, {"object"})),
            current.path, OfKind(current.properties, {"many", "scalar_array"}))

RegisterNumberName ==
    <<"r", "e", "g", "i", "s", "t", "e", "r", "N", "u", "m", "b", "e", "r">>

\* The unique constraint on the root's registerNumber column.
RegisterNumberUnique(root) ==
    IF \E n \in DOMAIN root.scalars : root.scalars[n].name = RegisterNumberName
    THEN [root EXCEPT !.unique_columns =
            <<root.scalars[CHOOSE n \in DOMAIN root.scalars :
                             root.scalars[n].name = RegisterNumberName].column_name>>,
                      !.nullable =
            [n \in DOMAIN root.columns |->
                root.nullable[n]
                    /\ root.columns[n] #
                          root.scalars[CHOOSE k \in DOMAIN root.scalars :
                                         root.scalars[k].name = RegisterNumberName].column_name]]
    ELSE root

Finished(b) ==
    [tables_by_name |-> [b.reg.tables_by_name EXCEPT ![b.spec] = RegisterNumberUnique(@)],
     tables_by_path |-> b.reg.tables_by_path,
     root |-> b.spec]

\* build_schema_from_sample, from the inferred node on
build_schema_from_sample(node) ==
    Finished(build_table([tables_by_name |-> <<>>, tables_by_path |-> <<>>], node, <<>>, "None"))

----------------------------------------------------------------------------
(* schema_builder.py: SchemaBuilder.  A resolved schema is the sequence of  *)
(* its properties, [name, kind, properties] in the order of the dict: kind  *)
(* "scalar" is a type of SCALAR_TYPES, "object" an object, "many" an array  *)
(* of objects and "scalar_array" any other array.  self.nodes is a function *)
(* from paths to TableNodes; a node is referred to by its path, and the     *)
(* children and flags are set on the registered node as the code sets them  *)
(* on the shared TableNode object.  table_columns are the columns handed to *)
(* Table(), columns the ColumnInfo dict.                                    *)

\* The columns a new node starts with.
KeyColumns(parent_node, is_array) ==
    <<IdName>> \o (IF parent_node = <<>> THEN <<>> ELSE <<ParentIdName>>)
               \o (IF is_array THEN <<PositionName>> ELSE <<>>)

\* The TableNode process_schema registers for a path that has none.
NewNode(path, scalars, parent_node, is_array) ==
    [name |-> table_name(path), path |-> path,
     table_columns |-> KeyColumns(parent_node, is_array)
                        \o [n \in 1..Len(scalars) |-> to_snake_case(scalars[n].name)],
     nullable |-> [n \in 1..(Len(KeyColumns(parent_node, is_array)) + Len(scalars)) |->
                        n > Len(KeyColumns(parent_node, is_array))],
     references |-> [n \in 1..(Len(KeyColumns(parent_node, is_array)) + Len(scalars)) |->
                        IF n = 2 /\ parent_node # <<>> THEN table_name(parent_node) ELSE <<>>],
     columns |-> [n \in 1..Len(scalars) |->
                    [prop_name |-> scalars[n].name,
                     column_name |-> to_snake_case(scalars[n].name)]],
     parent |-> parent_node, is_array |-> is_array, is_scalar_array |-> FALSE,
     scalar_value |-> "None", unique_columns |-> <<>>,
     object_children |-> <<>>, array_children |-> <<>>]

\* The TableNode create_scalar_array_node registers for a path that has none.
NewScalarArrayNode(path, parent_node) ==
    [name |-> table_name(path), path |-> path,
     table_columns |-> <<IdName, ParentIdName, PositionName, ValueName>>,
     nullable |-> <<FALSE, FALSE, FALSE, TRUE>>,
     references |-> <<<<>>, table_name(parent_node), <<>>, <<>>>>,
     columns |-> <<[prop_name |-> ValueName, column_name |-> ValueName]>>,
     parent |-> parent_node, is_array |-> TRUE, is_scalar_array |-> TRUE,
     scalar_value |-> ValueName, unique_columns |-> <<>>,
     object_children |-> <<>>, array_children |-> <<>>]

\* if node.parent is None: node.parent = parent_node
Adopted(node, parent_node) ==
    IF node.parent = <<>> THEN [node EXCEPT !.parent = parent_node] ELSE node

\* create_scalar_array_node: self.nodes after it and the path of its node
create_scalar_array_node(nodes, path, parent_node) ==
    IF path \in DOMAIN nodes
    THEN [nodes |-> [nodes EXCEPT ![path] =
                        [Adopted(@, parent_node) EXCEPT !.is_array = TRUE,
                                                        !.is_scalar_array = TRUE]],
          node |-> path]
    ELSE [nodes |-> Put(nodes, path, NewScalarArrayNode(path, parent_node)),
          node |-> path]

\* node.object_children[prop_name] = child_node
ObjectChild(r, owner, prop_name) ==
    [nodes |-> [r.nodes EXCEPT ![owner].object_children =
                    Append(@, [name |-> prop_name, target |-> r.node])],
     node |-> owner]

\* node.array_children[prop_name] = child_node
ArrayChild(r, owner, prop_name) ==
    [nodes |-> [r.nodes EXCEPT ![owner].array_children =
                    Append(@, [name |-> prop_name, target |-> r.node])],
     node |-> owner]

RECURSIVE process_schema(_, _, _, _, _)
RECURSIVE ProcessChildren(_, _, _)

\* The second loop over the properties: objects and arrays in dict order.
ProcessChildren(b, path, properties) ==
    IF properties = <<>> THEN b
    ELSE IF Head(properties).kind = "object"
    THEN ProcessChildren(
            ObjectChild(process_schema(b.nodes, Head(properties).properties,
                                       Append(path, to_snake_case(Head(properties).name)),
                                       b.node, FALSE),
                        b.node, Head(properties).name),
            path, Tail(properties))
    ELSE IF Head(properties).kind = "many"
    THEN ProcessChildren(
            ArrayChild(process_schema(b.nodes, Head(properties).properties,
                                      Append(path, to_snake_case(Head(properties).name)),
                                      b.node, TRUE),
                       b.node, Head(properties).name),
            path, Tail(properties))
    ELSE ProcessChildren(
            ArrayChild(create_scalar_array_node(b.nodes,
                                      Append(path, to_snake_case(Head(properties).name)),
                                      b.node),
                       b.node, Head(properties).name),
            path, Tail(properties))

\* process_schema: self.nodes after it and the path of the node it returns
process_schema(nodes, schema, path, parent_node, is_array) ==
    IF path \in DOMAIN nodes
    THEN [nodes |-> [nodes EXCEPT ![path] =
                        [(IF parent_node # <<>> THEN Adopted(@, parent_node) ELSE @)
                            EXCEPT !.is_array = @ \/ is_array]],
          node |-> path]
    ELSE ProcessChildren(
            [nodes |-> Put(nodes, path,
                           NewNode(path, OfKind(schema, {"scalar"}), parent_node, is_array)),
             node |-> path],
            path, OfKind(schema, {"object", "many", "scalar_array"}))

\* node.unique_columns: the columns of the unique properties the node has
UniqueColumns(node, unique_props) ==
    [node EXCEPT !.unique_columns =
        [n \in 1..Len(SelectSeq(node.columns, LAMBDA c : c.prop_name \in Range(unique_props))) |->
            SelectSeq(node.columns, LAMBDA c : c.prop_name \in Range(unique_props))[n].column_name]]

Built(b, unique_props) ==
    [nodes |-> [b.nodes EXCEPT ![b.node] = UniqueColumns(@, unique_props)],
     root |-> b.node]

\* SchemaBuilder.build for the root config ("register_entries", _, ["registerNumber"])
build(schema) ==
    Built(process_schema(<<>>, schema, <<RegisterEntries>>, <<>>, FALSE), <<RegisterNumberName>>)

----------------------------------------------------------------------------
(* The table forests.  schema.py builds a TableSpec forest from a sample    *)
(* document, schema_builder.py a TableNode forest from the OpenAPI          *)
(* document.  Both are built here for one document shape:                   *)
(*   {registerNumber: text, version: integer, count: integer,               *)
(*    details: {note: text, tags: [integer]},                               *)
(*    items: [{<item property>: integer}]}                                  *)

Field(name, column_name, scalar_type) ==
    [name |-> name, column_name |-> column_name, scalar_type |-> scalar_type]

Relation(name, target, relation) == [name |-> name, target |-> target, relation |-> relation]

FieldColumns(scalars) == {scalars[i].column_name : i \in 1..Len(scalars)}

FieldType(scalars, col) ==
    scalars[CHOOSE i \in 1..Len(scalars) :
                scalars[i].column_name = col
                /\ \A j \in (i + 1)..Len(scalars) : scalars[j].column_name # col].scalar_type

\* _build_table for one object node: the id column, the parent foreign key
\* (NOT NULL, ON DELETE CASCADE) and one nullable column per scalar field.
TableSpec(name, parent, parent_fk, scalars, relations) ==
    [name |-> name,
     parent |-> parent,
     parent_fk |-> parent_fk,
     scalars |-> scalars,
     relations |-> relations,
     position_column |-> FALSE,
     unique_columns |-> <<>>,
     columns |-> {"id"} \cup (IF parent_fk = "" THEN {} ELSE {parent_fk}) \cup FieldColumns(scalars),
     types |-> [c \in {"id"} \cup (IF parent_fk = "" THEN {} ELSE {parent_fk}) \cup FieldColumns(scalars) |->
                    IF c \in FieldColumns(scalars) THEN FieldType(scalars, c) ELSE "integer"],
     not_null |-> IF parent_fk = "" THEN {} ELSE {parent_fk},
     unique |-> {}]

\* The target of a many relation: a position column is appended, and the
\* table marked as carrying it, unless it already has a column of that name.
WithPosition(spec) ==
    IF "position" \in spec.columns THEN spec
    ELSE [spec EXCEPT !.columns = @ \cup {"position"},
                      !.types = Put(@, "position", "integer"),
                      !.not_null = @ \cup {"position"},
                      !.position_column = TRUE]

\* The table of a scalar array: id, parent foreign key, position, value.
ScalarArraySpec(name, parent, parent_fk, scalar_type) ==
    [TableSpec(name, parent, parent_fk, <<Field("value", "value", scalar_type)>>, <<>>)
        EXCEPT !.columns = @ \cup {"position"},
               !.types = Put(@, "position", "integer"),
               !.not_null = @ \cup {"position"},
               !.position_column = TRUE]

\* build_schema_from_sample: the root's registerNumber column becomes unique
\* and NOT NULL.
WithRegisterNumber(root) ==
    IF \E i \in 1..Len(root.scalars) : root.scalars[i].name = "registerNumber"
    THEN [root EXCEPT !.unique_columns = <<"register_number">>,
                      !.unique = {"register_number"},
                      !.not_null = @ \cup {"register_number"}]
    ELSE root

SampleSchema(item_prop) ==
    ("register_entries" :>
        WithRegisterNumber(TableSpec("register_entries", "", "",
            <<Field("registerNumber", "register_number", "text"),
              Field("version", "version", "integer"),
              Field("count", "count", "integer")>>,
            <<Relation("details", "register_entries_details", "one"),
              Relation("items", "register_entries_items", "many")>>)))
    @@ ("register_entries_details" :>
        TableSpec("register_entries_details", "register_entries", "register_entries_id",
            <<Field("note", "note", "text")>>,
            <<Relation("tags", "register_entries_details_tags", "scalar_array")>>))
    @@ ("register_entries_items" :>
        WithPosition(TableSpec("register_entries_items", "register_entries", "register_entries_id",
            <<Field(item_prop, item_prop, "integer")>>, <<>>)))
    @@ ("register_entries_details_tags" :>
        ScalarArraySpec("register_entries_details_tags", "register_entries_details",
            "details_id", "integer"))

ColumnInfo(prop_name, column_name, scalar_type) ==
    [prop_name |-> prop_name, column_name |-> column_name, scalar_type |-> scalar_type]

Child(name, target) == [name |-> name, target |-> target]

InfoColumns(cols) == {cols[i].column_name : i \in 1..Len(cols)}

InfoType(cols, col) ==
    cols[CHOOSE i \in 1..Len(cols) :
            cols[i].column_name = col
            /\ \A j \in (i + 1)..Len(cols) : cols[j].column_name # col].scalar_type

\* SchemaBuilder.process_schema for one object schema: id, parent_id (NOT
\* NULL, ON DELETE CASCADE) under a parent, position (NOT NULL) for an array
\* item, and one nullable column per scalar property.
TableNode(name, parent, is_array, cols, object_children, array_children) ==
    LET fixed == {"id"} \cup (IF parent = "" THEN {} ELSE {"parent_id"})
                        \cup (IF is_array THEN {"position"} ELSE {})
    IN  [name |-> name,
         parent |-> parent,
         parent_fk |-> IF parent = "" THEN "" ELSE "parent_id",
         cols |-> cols,
         is_array |-> is_array,
         is_scalar_array |-> FALSE,
         has_scalar_value |-> FALSE,
         scalar_value |-> ColumnInfo("", "", ""),
         unique_columns |-> <<>>,
         object_children |-> object_children,
         array_children |-> array_children,
         columns |-> fixed \cup InfoColumns(cols),
         types |-> [c \in fixed \cup InfoColumns(cols) |->
                        IF c \in InfoColumns(cols) THEN InfoType(cols, c) ELSE "integer"],
         not_null |-> fixed \ {"id"},
         unique |-> {}]

\* SchemaBuilder.create_scalar_array_node
ScalarArrayNode(name, parent, scalar_type) ==
    [TableNode(name, parent, TRUE, <<ColumnInfo("value", "value", scalar_type)>>, <<>>, <<>>)
        EXCEPT !.is_scalar_array = TRUE,
               !.has_scalar_value = TRUE,
               !.scalar_value = ColumnInfo("value", "value", scalar_type)]

\* SchemaBuilder.build: the root's unique columns are those of the unique
\* properties it has a column for, under one unique constraint.
WithUniqueProps(node, unique_props) ==
    LET have == SelectSeq(unique_props, LAMBDA p : \E i \in 1..Len(node.cols) : node.cols[i].prop_name = p)
        names == [i \in 1..Len(have) |->
                    node.cols[CHOOSE j \in 1..Len(node.cols) : node.cols[j].prop_name = have[i]].column_name]
    IN  [node EXCEPT !.unique_columns = names,
                     !.unique = {names[i] : i \in 1..Len(names)}]

\* build_schema_from_openapi, for the root register_entry_versions.
OpenApiSchema ==
    ("register_entry_versions" :>
        WithUniqueProps(
            TableNode("register_entry_versions", "", FALSE,
                <<ColumnInfo("registerNumber", "register_number", "text"),
                  ColumnInfo("version", "version", "integer"),
                  ColumnInfo("count", "count", "integer")>>,
                <<Child("details", "register_entry_versions__details")>>,
                <<Child("items", "register_entry_versions__items")>>),
            <<"registerNumber", "version">>))
    @@ ("register_entry_versions__details" :>
        TableNode("register_entry_versions__details", "register_entry_versions", FALSE,
            <<ColumnInfo("note", "note", "text")>>,
            <<>>,
            <<Child("tags", "register_entry_versions__details__tags")>>))
    @@ ("register_entry_versions__items" :>
        TableNode("register_entry_versions__items", "register_entry_versions", TRUE,
            <<ColumnInfo("v", "v", "integer")>>, <<>>, <<>>))
    @@ ("register_entry_versions__details__tags" :>
        ScalarArrayNode("register_entry_versions__details__tags",
            "register_entry_versions__details", "integer"))

\* The fixed tables of writer.ingest_entry, by the columns its statements
\* name; register_number carries the unique constraint ON CONFLICT needs.
FixedTable(name, parent, parent_fk, types, unique) ==
    [name |-> name,
     parent |-> parent,
     parent_fk |-> parent_fk,
     columns |-> DOMAIN types \cup {"id"},
     types |-> Put(types, "id", "integer"),
     not_null |-> {},
     unique |-> unique]

FixedSchema ==
    ("register_entry" :>
        FixedTable("register_entry", "", "",
            [schema_uri |-> "text", source |-> "text", source_url |-> "text",
             source_date |-> "text", json_doc_url |-> "text", register_number |-> "text"],
            {"register_number"}))
    @@ ("employees_involved" :>
        FixedTable("employees_involved", "register_entry", "entry_id",
            [entry_id |-> "integer", related_year_finished |-> "boolean",
             related_year_start |-> "text", related_year_end |-> "text",
             employees_from |-> "integer", employees_to |-> "integer",
             employee_fte |-> "number"],
            {}))
    @@ ("code_of_conduct" :>
        FixedTable("code_of_conduct", "register_entry", "entry_id",
            [entry_id |-> "integer", own_code_of_conduct |-> "boolean",
             code_of_conduct_pdf_url |-> "text"],
            {}))

SampleSchemaV == SampleSchema("v")
SampleSchemaPosition == SampleSchema("position")

\* The table forest of the run: table name -> table.
schema ==
    IF writer = "sync_table"
    THEN (IF sample = "position" THEN SampleSchemaPosition ELSE SampleSchemaV)
    ELSE IF writer = "persist_node" THEN OpenApiSchema
    ELSE FixedSchema

----------------------------------------------------------------------------
(* The database.  A row is a function from the table's column names to      *)
(* values, NULL being Null; db maps each table to its set of rows.  The     *)
(* writers run their statements on a working state                          *)
(*   [db, nextId, log, err, ret]                                            *)
(* log is the statements executed so far (each with the database and the    *)
(* sequences it left), err the exception that ended the descent, or "",     *)
(* ret the value the last call returned.                                    *)


EmptyRow == [c \in {} |-> Null]

ColumnType(spec, col) == spec.types[col]

\* The rows a DELETE ... WHERE col = value removes, and those the foreign keys'
\* ON DELETE CASCADE remove with them: table -> set of ids.
RECURSIVE Doomed(_, _)
Doomed(d, ids) ==
    LET more == [t \in DOMAIN d |->
                    ids[t] \cup
                    {r["id"] : r \in {x \in d[t] :
                        /\ schema[t].parent # ""
                        /\ x[schema[t].parent_fk] \in ids[schema[t].parent]}}]
    IN  IF more = ids THEN ids ELSE Doomed(d, more)

DeleteWhere(d, table, col, value) ==
    LET first == [t \in DOMAIN d |->
                    IF t = table THEN {r["id"] : r \in {x \in d[t] : x[col] = value}} ELSE {}]
        gone == Doomed(d, first)
    IN  [t \in DOMAIN d |-> {r \in d[t] : r["id"] \notin gone[t]}]

\* A statement given to the database: what it was, the row id it returned
\* or matched, the database and the sequences it left, the exception it
\* raised ("" when none).
Stmt(op, table, target, set, cols, id, after, ids, exc) ==
    [op |-> op, table |-> table, target |-> target, set |-> set, cols |-> cols, id |-> id,
     after |-> after, ids |-> ids, exc |-> exc]

\* The writer's own code raises.
Fail(st, exc) == [st EXCEPT !.err = exc]

\* The statement raises: the descent ends with the database as it was.
Raised(st, op, spec, target, set, cols, exc) ==
    [st EXCEPT !.err = exc,
               !.log = Append(@, Stmt(op, spec.name, target, set, cols, Null, st.db,
                                      st.nextId, exc))]

\* A faulty ExecDelete, for C1: the DELETE is never issued.
ExecNoDelete(st, table, col, value) == st

\* conn.execute(delete(table).where(table.c[col] == value))
ExecDelete(st, table, col, value) ==
    IF st.err # "" THEN st
    ELSE LET after == DeleteWhere(st.db, table, col, value)
         IN  [st EXCEPT !.db = after,
                        !.log = Append(@, Stmt("delete", table, {col}, {}, {}, value, after,
                                               st.nextId, ""))]

\* The stored row of an INSERT of the given values: every column of the table,
\* NULL where no value is given, the id drawn from the table's sequence.
FullRow(spec, values, id) ==
    [c \in spec.columns |->
        IF c = "id" THEN JInt(id) ELSE IF c \in DOMAIN values THEN values[c] ELSE Null]

\* What the database answers to the values of a row: "" when it takes them.
RowError(spec, values) ==
    IF \E c \in DOMAIN values : c \notin spec.columns THEN "CompileError"
    ELSE IF \E c \in DOMAIN values : ~FitsColumn(ColumnType(spec, c), values[c]) THEN "DataError"
    ELSE IF \E c \in spec.not_null : c \notin DOMAIN values \/ values[c] = Null
         THEN "IntegrityError"
    ELSE ""

\* A faulty Conflicting, for C2: no row is ever seen to hold the key.
NeverConflicting(rows, values, cols) == {}

\* The rows that already hold the values' key on the columns cols (a NULL
\* never equals anything).
Conflicting(rows, values, cols) ==
    {r \in rows : \A c \in cols : c \in DOMAIN values /\ values[c] # Null /\ r[c] = values[c]}

\* INSERT ... RETURNING id
ExecInsert(st, spec, values) ==
    IF st.err # "" THEN st
    ELSE LET id == st.nextId[spec.name]
             row == FullRow(spec, values, id)
             after == [st.db EXCEPT ![spec.name] = @ \cup {row}]
             drawn == [st EXCEPT !.nextId[spec.name] = id + 1]
         IN  IF RowError(spec, values) # ""
             THEN Raised(st, "insert", spec, {}, {}, DOMAIN values, RowError(spec, values))
             ELSE IF /\ spec.unique # {}
                     /\ Conflicting(st.db[spec.name], values, spec.unique) # {}
                  THEN Raised(drawn, "insert", spec, {}, {}, DOMAIN values, "IntegrityError")
             ELSE [drawn EXCEPT !.db = after,
                                !.ret = JInt(id),
                                !.log = Append(@, Stmt("insert", spec.name, {}, {}, DOMAIN values,
                                                       JInt(id), after, drawn.nextId, ""))]

\* INSERT ... ON CONFLICT (target) DO UPDATE SET set ... RETURNING id.  The
\* target has to be the columns of a unique constraint of the table; the
\* sequence is drawn from before the conflict is seen.
ExecUpsert(st, spec, values, target, set) ==
    IF st.err # "" THEN st
    ELSE LET id == st.nextId[spec.name]
             hit == Conflicting(st.db[spec.name], values, target)
             old == CHOOSE r \in hit : TRUE
             new == [c \in spec.columns |-> IF c \in set THEN values[c] ELSE old[c]]
             updated == [st.db EXCEPT ![spec.name] = (@ \ {old}) \cup {new}]
             inserted == [st.db EXCEPT ![spec.name] = @ \cup {FullRow(spec, values, id)}]
             drawn == [st EXCEPT !.nextId[spec.name] = id + 1]
         IN  IF target # spec.unique
             THEN Raised(st, "upsert", spec, target, set, DOMAIN values, "ProgrammingError")
             ELSE IF RowError(spec, values) # ""
                  THEN Raised(st, "upsert", spec, target, set, DOMAIN values,
                              RowError(spec, values))
             ELSE IF hit # {}
                  THEN [drawn EXCEPT !.db = updated,
                                     !.ret = old["id"],
                                     !.log = Append(@, Stmt("upsert", spec.name, target, set,
                                                            DOMAIN values, old["id"], updated,
                                                            drawn.nextId, ""))]
             ELSE [drawn EXCEPT !.db = inserted,
                                !.ret = JInt(id),
                                !.log = Append(@, Stmt("upsert", spec.name, target, set,
                                                       DOMAIN values, JInt(id), inserted,
                                                       drawn.nextId, ""))]

----------------------------------------------------------------------------
(* persistence.py: sync_table and sync_relations, on a TableSpec forest     *)

\* row = {field.column_name: convert_scalar(field, payload.get(field.name))}
\* over spec.scalars in order; a later field of the same column overwrites.
RECURSIVE ScalarRow(_, _, _)
ScalarRow(scalars, payload, n) ==
    IF n = 0 THEN EmptyRow
    ELSE LET field == scalars[n]
             value == IF IsObj(payload) THEN Get(payload, field.name) ELSE Null
         IN  Put(ScalarRow(scalars, payload, n - 1), field.column_name,
                 convert_scalar(field.scalar_type, value))

\* The exception convert_scalar let through while the row was built, or "".
RowRaise(row) ==
    IF \E c \in DOMAIN row : row[c].t = "raise"
    THEN row[CHOOSE c \in DOMAIN row : row[c].t = "raise"].exc
    ELSE ""

\* row[column] = value, when the condition of the "if" holds.
PutIf(cond, row, column, value) == IF cond THEN Put(row, column, value) ELSE row

\* A faulty SyncRow, for C19: the parent id and the position are exchanged.
SyncRowExchanged(spec, payload, parent_id, position) ==
    PutIf(spec.position_column /\ parent_id # Null,
          PutIf(spec.parent_fk # "" /\ position # Null,
                ScalarRow(spec.scalars, payload, Len(spec.scalars)),
                spec.parent_fk, position),
          "position", parent_id)

SyncRow(spec, payload, parent_id, position) ==
    PutIf(spec.position_column /\ position # Null,
          PutIf(spec.parent_fk # "" /\ parent_id # Null,
                ScalarRow(spec.scalars, payload, Len(spec.scalars)),
                spec.parent_fk, parent_id),
          "position", position)

\* The columns named in spec.unique_columns, as a set.
UniqueSet(spec) == {spec.unique_columns[i] : i \in 1..Len(spec.unique_columns)}

\* The statement of sync_table: a plain insert, or with unique columns an
\* upsert on them that sets every other key of the row.
SyncWrite(st, spec, row) ==
    IF spec.unique_columns # <<>>
    THEN ExecUpsert(st, spec, row, UniqueSet(spec), DOMAIN row \ UniqueSet(spec))
    ELSE ExecInsert(st, spec, row)

\* "return row_id" at the end of a writer that no exception has left.
Returning(st, row_id) == IF st.err = "" THEN [st EXCEPT !.ret = row_id] ELSE st

RECURSIVE sync_table(_, _, _, _, _)
RECURSIVE sync_relations(_, _, _, _, _)
RECURSIVE sync_items(_, _, _, _, _, _)

\* for idx, item in enumerate(value), from index idx on (0-based): every item
\* of a scalar array wrapped as {"value": item}, of a many relation the items
\* that are objects.
sync_items(st, relation, value, parent_id, idx, wrap) ==
    IF st.err # "" \/ idx >= Len(value.items) THEN st
    ELSE sync_items(
            IF wrap \/ IsObj(value.items[idx + 1])
            THEN sync_table(st, schema[relation.target],
                            IF wrap THEN JObj("value" :> value.items[idx + 1])
                            ELSE value.items[idx + 1],
                            parent_id, JInt(idx))
            ELSE st,
            relation, value, parent_id, idx + 1, wrap)

\* What follows the delete of one relation's rows: the value under the
\* relation's name is synced when it has the relation's shape.
SyncRelation(cleared, relation, child, value, parent_id) ==
    IF relation.relation = "one"
    THEN (IF IsObj(value) THEN sync_table(cleared, child, value, parent_id, Null)
          ELSE cleared)
    ELSE IF relation.relation \in {"many", "scalar_array"}
         THEN (IF IsList(value)
               THEN sync_items(cleared, relation, value, parent_id, 0,
                               relation.relation = "scalar_array")
               ELSE cleared)
    ELSE cleared

\* The child table of a relation.
Target(relation) == schema[relation.target]

\* The relations of spec from the n-th on.
sync_relations(st, spec, payload, parent_id, n) ==
    IF st.err # "" \/ n > Len(spec.relations) THEN st
    ELSE sync_relations(
            IF Target(spec.relations[n]).parent_fk = "" THEN st
            ELSE SyncRelation(
                    ExecDelete(st, Target(spec.relations[n]).name,
                               Target(spec.relations[n]).parent_fk, parent_id),
                    spec.relations[n], Target(spec.relations[n]),
                    Get(IF IsObj(payload) THEN payload ELSE EmptyObj, spec.relations[n].name),
                    parent_id),
            spec, payload, parent_id, n + 1)

\* The row is written, unless convert_scalar raised while it was built.
SyncChecked(st, spec, row) ==
    IF RowRaise(row) # "" THEN Fail(st, RowRaise(row)) ELSE SyncWrite(st, spec, row)

\* row_id = res.scalar_one(); sync_relations(conn, spec, payload, row_id)
SyncBelow(written, spec, payload) ==
    IF written.err # "" THEN written
    ELSE Returning(sync_relations(written, spec, payload, written.ret, 1), written.ret)

sync_table(st, spec, payload, parent_id, position) ==
    IF st.err # "" THEN st
    ELSE IF payload = Null THEN [st EXCEPT !.ret = Null]
    ELSE SyncBelow(SyncChecked(st, spec, SyncRow(spec, payload, parent_id, position)),
                   spec, payload)

----------------------------------------------------------------------------
(* ingest.py: persist_node, persist_array and persist_object, on a TableNode *)
(* forest                                                                    *)

\* row = {column_info.column_name: convert_value(column_info, payload.get(prop))}
\* over node.columns in order.
RECURSIVE ColumnRow(_, _, _)
ColumnRow(columns, payload, n) ==
    IF n = 0 THEN EmptyRow
    ELSE LET column_info == columns[n]
         IN  Put(ColumnRow(columns, payload, n - 1), column_info.column_name,
                 convert_value(column_info.scalar_type, Get(payload, column_info.prop_name)))

PersistRow(node, payload, parent_id, position) ==
    PutIf(position # Null,
          PutIf(parent_id # Null, ColumnRow(node.cols, payload, Len(node.cols)),
                "parent_id", parent_id),
          "position", position)

\* unique_columns = [col for col in node.unique_columns if row.get(col) is not None]
PresentUnique(node, row) ==
    {node.unique_columns[i] : i \in
        {j \in 1..Len(node.unique_columns) :
            /\ node.unique_columns[j] \in DOMAIN row
            /\ row[node.unique_columns[j]] # Null}}

\* The statements of persist_object for its own row, unique being the
\* unique columns the row has a value for.
PersistStatement(st, node, row, unique, parent_id, clear_existing) ==
    IF unique # {}
    THEN ExecUpsert(st, node, row, unique, DOMAIN row \ unique)
    ELSE ExecInsert(
            IF clear_existing /\ parent_id # Null
            THEN ExecDelete(st, node.name, "parent_id", parent_id) ELSE st,
            node, row)

PersistWrite(st, node, row, parent_id, clear_existing) ==
    PersistStatement(st, node, row, PresentUnique(node, row), parent_id, clear_existing)

RECURSIVE persist_node(_, _, _, _)
RECURSIVE persist_array(_, _, _, _)
RECURSIVE persist_object(_, _, _, _, _, _)
RECURSIVE persist_elements(_, _, _, _, _)
RECURSIVE persist_children(_, _, _, _, _)

\* rows.append({"parent_id", "position", value column}) for each item, then
\* conn.execute(table.insert(), rows): the rows from position idx on.
RECURSIVE insert_scalars(_, _, _, _, _)
insert_scalars(st, node, payload, parent_id, idx) ==
    IF st.err # "" \/ idx >= Len(payload.items) THEN st
    ELSE LET converted == convert_value(node.scalar_value.scalar_type, payload.items[idx + 1])
             row == Put(Put(Put(EmptyRow, "parent_id", parent_id), "position", JInt(idx)),
                        node.scalar_value.column_name, converted)
         IN  insert_scalars(ExecInsert(st, node, row), node, payload, parent_id, idx + 1)

\* for position, item in enumerate(payload): persist_object(..., clear_existing=False)
persist_elements(st, node, payload, parent_id, idx) ==
    IF st.err # "" \/ idx >= Len(payload.items) THEN st
    ELSE persist_elements(
            persist_object(st, node, payload.items[idx + 1], parent_id, JInt(idx), FALSE),
            node, payload, parent_id, idx + 1)

\* What follows the delete of the array's rows.
PersistItems(cleared, node, payload, parent_id) ==
    IF node.is_scalar_array
    THEN (IF ~node.has_scalar_value THEN cleared
          ELSE insert_scalars(cleared, node, payload, parent_id, 0))
    ELSE persist_elements(cleared, node, payload, parent_id, 0)

persist_array(st, node, payload, parent_id) ==
    IF st.err # "" THEN st
    ELSE IF parent_id = Null THEN st
    ELSE IF ~IsList(payload) THEN st
    ELSE PersistItems(ExecDelete(st, node.name, "parent_id", parent_id), node, payload,
                      parent_id)

persist_node(st, node, payload, parent_id) ==
    IF st.err # "" THEN st
    ELSE IF node.is_array THEN Returning(persist_array(st, node, payload, parent_id), Null)
    ELSE persist_object(st, node, payload, parent_id, Null, TRUE)

\* for prop_name, child in children.items(): persist_node(child, payload.get(prop_name), row_id)
persist_children(st, children, payload, row_id, n) ==
    IF st.err # "" \/ n > Len(children) THEN st
    ELSE persist_children(
            persist_node(st, schema[children[n].target], Get(payload, children[n].name), row_id),
            children, payload, row_id, n + 1)

\* row_id = result.scalar_one(); the object children, then the array
\* children, are given what the payload holds under their names.
PersistBelow(written, node, payload) ==
    IF written.err # "" THEN written
    ELSE Returning(persist_children(written, node.object_children \o node.array_children,
                                    payload, written.ret, 1),
                   written.ret)

persist_object(st, node, payload, parent_id, position, clear_existing) ==
    IF st.err # "" THEN st
    ELSE IF ~IsObj(payload) THEN [st EXCEPT !.ret = Null]
    ELSE PersistBelow(PersistWrite(st, node, PersistRow(node, payload, parent_id, position),
                                   parent_id, clear_existing),
                      node, payload)

----------------------------------------------------------------------------
(* writer.py and mappings/: ingest_entry on the fixed tables.  The tables   *)
(* are those the statements name, with the columns the statements give;     *)
(* of the sixteen sections two are followed, employeesInvolvedInLobbying    *)
(* and codeOfConduct.                                                       *)

\* Python's truth value of a JSON value ("if not data", "x or {}").
Truthy(v) ==
    CASE v.t = "null" -> FALSE
      [] v.t = "bool" -> v.b
      [] v.t = "int" -> v.i # 0
      [] v.t = "float" -> "special" \in DOMAIN v \/ v.tenths # 0
      [] v.t = "str" -> v.s # <<>>
      [] v.t = "list" -> v.items # <<>>
      [] v.t = "obj" -> DOMAIN v.f # {}
      [] OTHER -> TRUE

\* common.scalar: the value under key when it is a scalar, else None.
scalar(obj, key) ==
    IF ~IsObj(obj) THEN Null
    ELSE IF Get(obj, key).t \in {"str", "int", "float", "bool", "null"} THEN Get(obj, key)
    ELSE Null

\* common.dt: the ISO text of the date-time read from value, value itself
\* when none can be read.  Of the forms dateutil reads, the ISO 8601 ones.
dt(value) ==
    IF ~Truthy(value) THEN Null
    ELSE IF value.t = "str" /\ as_datetime(value.s) # Null THEN JStr(as_datetime(value.s).s)
    ELSE value

\* common.d: as dt, keeping the date.
d(value) ==
    IF ~Truthy(value) THEN Null
    ELSE IF value.t = "str" /\ as_datetime(value.s) # Null
         THEN JStr(SubSeq(as_datetime(value.s).s, 1, Len(DatePattern)))
    ELSE value

\* INSERT INTO register_entry ... ON CONFLICT (register_number) DO UPDATE SET
\* every other column ... RETURNING id
upsert_register_entry(st, doc) ==
    ExecUpsert(st, FixedSchema["register_entry"],
        [schema_uri |-> Get(doc, "$schema"),
         source |-> scalar(doc, "source"),
         source_url |-> scalar(doc, "sourceUrl"),
         source_date |-> dt(scalar(doc, "sourceDate")),
         json_doc_url |-> scalar(doc, "jsonDocumentationUrl"),
         register_number |-> scalar(doc, "registerNumber")],
        {"register_number"},
        {"schema_uri", "source", "source_url", "source_date", "json_doc_url"})

TOP_LEVEL_TABLES == <<"employees_involved", "code_of_conduct">>

\* A faulty purge_children_for_entry, for C28: no table is emptied.
PurgeNothing(st, entry_id, n) == st

\* DELETE FROM table WHERE entry_id = entry_id, for the tables from the n-th on.
RECURSIVE purge_children_for_entry(_, _, _)
purge_children_for_entry(st, entry_id, n) ==
    IF st.err # "" \/ n > Len(TOP_LEVEL_TABLES) THEN st
    ELSE purge_children_for_entry(
            ExecDelete(st, TOP_LEVEL_TABLES[n], "entry_id", entry_id), entry_id, n + 1)

load_employees(st, entry_id, data) ==
    IF st.err # "" \/ ~Truthy(data) THEN st
    ELSE LET count == IF Truthy(Get(data, "employeesCount"))
                      THEN Get(data, "employeesCount") ELSE EmptyObj
         IN  IF ~IsObj(count) THEN Fail(st, "AttributeError")
             ELSE ExecInsert(st, FixedSchema["employees_involved"],
                    [entry_id |-> entry_id,
                     related_year_finished |-> Get(data, "relatedFiscalYearFinished"),
                     related_year_start |-> d(scalar(data, "relatedFiscalYearStart")),
                     related_year_end |-> d(scalar(data, "relatedFiscalYearEnd")),
                     employees_from |-> Get(count, "from"),
                     employees_to |-> Get(count, "to"),
                     employee_fte |-> Get(data, "employeeFTE")])

load_code_of_conduct(st, entry_id, data) ==
    IF st.err # "" \/ ~Truthy(data) THEN st
    ELSE ExecInsert(st, FixedSchema["code_of_conduct"],
            [entry_id |-> entry_id,
             own_code_of_conduct |-> Get(data, "ownCodeOfConduct"),
             code_of_conduct_pdf_url |-> scalar(data, "codeOfConductPdfUrl")])

SECTION_HANDLERS ==
    <<[key |-> "employeesInvolvedInLobbying", handler |-> "load_employees"],
      [key |-> "codeOfConduct", handler |-> "load_code_of_conduct"]>>

\* for key, handler in SECTION_HANDLERS, from the n-th on: the handler is
\* given the section when it is a dict, else {}.
RECURSIVE load_sections(_, _, _, _)
load_sections(st, entry_id, doc, n) ==
    IF st.err # "" \/ n > Len(SECTION_HANDLERS) THEN st
    ELSE LET payload == Get(doc, SECTION_HANDLERS[n].key)
             data == IF IsObj(payload) THEN payload ELSE EmptyObj
             done == IF SECTION_HANDLERS[n].handler = "load_employees"
                     THEN load_employees(st, entry_id, data)
                     ELSE load_code_of_conduct(st, entry_id, data)
         IN  load_sections(done, entry_id, doc, n + 1)

\* entry_id = upsert_register_entry(...); purge_children_for_entry(...);
\* the handlers; return entry_id
LoadEntry(upserted, doc) ==
    Returning(load_sections(purge_children_for_entry(upserted, upserted.ret, 1),
                            upserted.ret, doc, 1),
              upserted.ret)

ingest_entry(st, doc) == LoadEntry(upsert_register_entry(st, doc), doc)

----------------------------------------------------------------------------
(* Documents *)

MaxLen == 2     \* the longest list in a document
MaxTx == 2      \* the most transactions in one run

R1 == JStr(<<"R", "1">>)
R2 == JStr(<<"R", "2">>)
Junk == JStr(<<"x">>)

With(doc, key, value) == JObj(Put(doc.f, key, value))
Without(doc, key) == JObj([k \in DOMAIN doc.f \ {key} |-> doc.f[k]])

\* The property of the items' objects, as in the sample.
ItemProp == sample

ItemObj(v) == JObj(ItemProp :> JInt(v))

\* The lists of n objects, numbered upwards and downwards.
Ascending(n) == [i \in 1..n |-> ItemObj(i)]
Descending(n) == [i \in 1..n |-> ItemObj(n + 1 - i)]

\* The list of n objects but for the k-th element, which is not an object.
Stray(n, k) == [i \in 1..n |-> IF i = k THEN Junk ELSE ItemObj(i)]

\* What a document may hold under "items": not a list, a list of objects in
\* either order, or a list of objects but for one element.
ItemsVals ==
    {Junk}
        \cup {JList(Ascending(n)) : n \in 0..MaxLen}
        \cup {JList(Descending(n)) : n \in 0..MaxLen}
        \cup UNION {{JList(Stray(n, k)) : k \in 1..n} : n \in 1..MaxLen}

Note == "note" :> JStr(<<"n">>)

\* What a document may hold under "details": not an object, or an object
\* without tags, with tags that are not a list, with no tag or with MaxLen.
DetailsVals ==
    {Junk, JObj(Note), JObj(Note @@ "tags" :> Junk),
     JObj(Note @@ "tags" :> JList(<<>>)),
     JObj(Note @@ "tags" :> JList([i \in 1..MaxLen |-> JInt(5)]))}

CountVals == {JInt(7), JStr(<<"a">>), JInf}

Base(r) == JObj("registerNumber" :> r @@ "version" :> JInt(1))

Documents ==
    {Base(R1), Base(R2), Without(Base(R1), "version"), Without(Base(R1), "registerNumber")}
        \cup {With(Base(R1), "items", v) : v \in ItemsVals}
        \cup {With(Base(R1), "details", v) : v \in DetailsVals}
        \cup {With(Base(R1), "count", v) : v \in CountVals}
        \cup {With(With(Base(R1), "items", JList(Descending(MaxLen))),
                   "details", JObj(Note @@ "tags" :> JList(<<JInt(5)>>)))}

\* RegisterEntryModel.model_validate: registerNumber is a str, version an int
\* or missing; any other property is allowed as it is.
Validates(doc) ==
    /\ IsObj(doc)
    /\ Get(doc, "registerNumber").t = "str"
    /\ Get(doc, "version").t \in {"int", "null"}

Entry(r, source) == JObj("registerNumber" :> r @@ "source" :> JStr(<<source>>))
Conduct == JObj("ownCodeOfConduct" :> JBool(TRUE))
Employees == JObj("employeesCount" :> JObj("from" :> JInt(1)))

\* The register entries given to ingest_entry: sections missing, of the wrong
\* shape, well-formed, and holding what the statement cannot take.
EntryDocuments ==
    {Entry(R1, "s"), Entry(R1, "t"), Entry(R2, "s"), Without(Entry(R1, "s"), "registerNumber")}
        \cup {With(Entry(R1, "s"), "codeOfConduct", v) :
                v \in {Junk, Conduct, JObj("ownCodeOfConduct" :> EmptyObj)}}
        \cup {With(Entry(R1, "s"), "employeesInvolvedInLobbying", v) :
                v \in {Employees, JObj("employeesCount" :> Junk)}}
        \cup {With(With(Entry(R1, "s"), "employeesInvolvedInLobbying", Employees),
                   "codeOfConduct", v) :
                v \in {Conduct, JObj("ownCodeOfConduct" :> EmptyObj)}}

\* The payloads a run of the writer is given.
Payloads ==
    IF writer = "sync_table" THEN Documents \cup {Null, Junk}
    ELSE IF writer = "persist_node" THEN {doc \in Documents : Validates(doc)}
    ELSE EntryDocuments

----------------------------------------------------------------------------
(* One document in one transaction *)

RootSpec == schema[CHOOSE t \in DOMAIN schema : schema[t].parent = ""]

Start == [db |-> db, nextId |-> nextId, log |-> <<>>, err |-> "", ret |-> Null]

\* The descent of the run's writer through one document.
WriteDocument(doc) ==
    IF writer = "sync_table" THEN sync_table(Start, RootSpec, doc, Null, Null)
    ELSE IF writer = "persist_node" THEN persist_node(Start, RootSpec, doc, Null)
    ELSE ingest_entry(Start, doc)

\* A faulty Transaction, for C5: what the statements executed have written
\* stays, whether or not the writer came to its end.
KeepsWritten(run, done, completed) == IF done = 0 THEN db ELSE run.log[done].after

\* What the transaction leaves committed.  "async with engine.begin() as
\* conn" (ingest.run_ingestion) and "conn.commit() / except: conn.rollback()"
\* (write_document) commit when the writer returns and roll back when an
\* exception leaves it or the transaction is aborted; done is the number of
\* statements executed.
Transaction(run, done, completed) ==
    IF completed /\ run.err = "" THEN run.db ELSE db

\* The parent key a statement stored in the row it wrote in a child table.
StoredParent(stmt) ==
    IF stmt.op \in {"insert", "upsert"} /\ stmt.exc = "" /\ schema[stmt.table].parent # ""
    THEN (CHOOSE r \in stmt.after[stmt.table] : r["id"] = stmt.id)[schema[stmt.table].parent_fk]
    ELSE Null

\* The statements of a log without the database each left: of a row written
\* in a child table the parent key it holds is kept.
Statements(log) ==
    [i \in 1..Len(log) |->
        [op |-> log[i].op, table |-> log[i].table, target |-> log[i].target,
         set |-> log[i].set, cols |-> log[i].cols, id |-> log[i].id, exc |-> log[i].exc,
         fk |-> StoredParent(log[i])]]

\* The committed rows missing from a working database.
Missing(work) == UNION {{r \in db[t] : r \notin work[t]} : t \in DOMAIN db}

NoLast == [outcome |-> "none", doc |-> Null, ret |-> Null, err |-> "", done |-> 0, missing |-> 0]

\* An exception that leaves persist_node leaves ingest.run_ingestion with it
\* and the run is over (sync_table's caller is taken to do the same); the
\* consumer of __main__ logs it and takes the next document.
Stopped == writer # "ingest_entry" /\ last.outcome \in {"raised", "aborted"}

\* The document is written and the transaction ends: committed, or rolled
\* back by the exception that left the writer.  A sequence keeps the values
\* drawn from it either way.
Write(doc) ==
    /\ Len(history) < MaxTx
    /\ ~Stopped
    /\ \E run \in {WriteDocument(doc)} :
          /\ db' = Transaction(run, Len(run.log), TRUE)
          /\ nextId' = run.nextId
          /\ history' = Append(history,
                                [outcome |-> IF run.err = "" THEN "committed" ELSE "raised",
                                 doc |-> doc, ret |-> run.ret, log |-> Statements(run.log)])
          /\ last' = [outcome |-> IF run.err = "" THEN "committed" ELSE "raised",
                      doc |-> doc, ret |-> run.ret, err |-> run.err,
                      done |-> Len(run.log), missing |-> Cardinality(Missing(run.db))]
    /\ UNCHANGED <<conv, inf, writer, sample, mrg, built, req, pag, pre, ing>>

\* The transaction is aborted (timeout, connection loss) after done of the
\* document's statements.
Abort(doc) ==
    /\ Len(history) < MaxTx
    /\ ~Stopped
    /\ \E run \in {WriteDocument(doc)} :
          \E done \in {i \in 1..Len(run.log) : run.log[i].exc = ""} :
              /\ db' = Transaction(run, done, FALSE)
              /\ nextId' = run.log[done].ids
              /\ history' = Append(history,
                                    [outcome |-> "aborted", doc |-> doc, ret |-> Null,
                                     log |-> Statements(SubSeq(run.log, 1, done))])
              /\ last' = [outcome |-> "aborted", doc |-> doc, ret |-> Null, err |-> "",
                          done |-> done, missing |-> Cardinality(Missing(run.log[done].after))]
    /\ UNCHANGED <<conv, inf, writer, sample, mrg, built, req, pag, pre, ing>>

NoConv == [fn |-> "", scalar_type |-> "", value |-> Null, out |-> Null]
NoInf == [values |-> <<>>, node |-> Null]
NoMerge == [types |-> <<>>, prev |-> "None", field |-> "None", back |-> "None"]
NoBuilt == [builder |-> "", input |-> Null, out |-> Null]
NoReq == [client |-> ""]
NoPag == [client |-> ""]
NoPre == [fetch |-> ""]
NoRun == [producer |-> ""]

\* No request is made and no run of __main__ is under way.
Offline ==
    /\ req = NoReq
    /\ pag = NoPag
    /\ pre = NoPre
    /\ ing = NoRun

Init ==
    /\ conv = NoConv
    /\ inf = NoInf
    /\ mrg = NoMerge
    /\ built = NoBuilt
    /\ Offline
    /\ \/ writer = "sync_table" /\ sample \in {"v", "position"}
       \/ writer \in {"persist_node", "ingest_entry"} /\ sample = "v"
    /\ db = [t \in DOMAIN schema |-> {}]
    /\ nextId = [t \in DOMAIN schema |-> 1]
    /\ history = <<>>
    /\ last = NoLast

Next ==
    \/ \E doc \in Payloads : Write(doc)
    \/ \E doc \in Payloads : Abort(doc)

Spec == Init /\ [][Next]_vars

----------------------------------------------------------------------------
(* The conversions and the inference, each on its own *)

\* The sequences over S of length at most n.
Lists(S, n) == UNION {[1..k -> S] : k \in 0..n}

\* A result not computed yet.
Pending == [t |-> "pending"]

\* No writer runs.
Idle ==
    /\ writer = "none"
    /\ sample = ""
    /\ db = <<>>
    /\ nextId = <<>>
    /\ history = <<>>
    /\ last = NoLast
    /\ Offline

ConvertValues ==
    {Null, JBool(TRUE), JBool(FALSE), JInt(1), JInt(0), JInt(12), JFloat(15), JInf,
     JStr(<<"t", "r", "u", "e">>), JStr(<<"T", "r", "u", "e">>),
     JStr(<<" ", "y", "e", "s", " ">>), JStr(<<"f", "a", "l", "s", "e">>),
     JStr(<<"m", "a", "y", "b", "e">>), JStr(<<"a", "b", "c">>),
     JStr(<<"1", "2">>), JStr(<<"-", "3">>), JStr(<<"1", ".", "5">>),
     JStr(<<"2", "0", "2", "4", "-", "0", "1", "-", "0", "2", "T",
            "0", "3", ":", "0", "4", ":", "0", "5", "Z">>),
     JStr(<<"2", "0", "2", "4", "-", "1", "3", "-", "0", "2", "T",
            "0", "3", ":", "0", "4", ":", "0", "5">>),
     JList(<<>>)}

InitConvert ==
    /\ conv \in [fn : {"convert_scalar", "convert_value"}, scalar_type : ScalarTypes,
                 value : ConvertValues, out : {Pending}]
    /\ inf = NoInf
    /\ mrg = NoMerge
    /\ built = NoBuilt
    /\ Idle

\* The conversion is applied to the value.
Convert ==
    /\ conv.out = Pending
    /\ conv' = [conv EXCEPT !.out =
                    IF conv.fn = "convert_scalar" THEN convert_scalar(conv.scalar_type, conv.value)
                    ELSE convert_value(conv.scalar_type, conv.value)]
    /\ UNCHANGED <<inf, writer, sample, db, nextId, history, last, mrg, built, req, pag, pre, ing>>

NextConvert == Convert

SpecConvert == InitConvert /\ [][NextConvert]_vars

MaxItems == 3   \* the longest list given to _infer_array

\* The items of the lists: scalars, and objects that share a scalar field
\* (a), a nested object (o), a nested array of objects (l) and a nested
\* scalar array (s), with different fields and types from item to item, and
\* an object whose o is a scalar.
InferItems ==
    {JInt(1), JFloat(15), JStr(<<"a">>), JBool(TRUE),
     JObj("a" :> JInt(1)),
     JObj("a" :> JStr(<<"x">>)),
     JObj("a" :> JBool(TRUE) @@ "o" :> JObj("x" :> JInt(1))
          @@ "l" :> JList(<<JObj("x" :> JInt(1))>>) @@ "s" :> JList(<<JInt(1)>>)),
     JObj("o" :> JObj("x" :> JFloat(15) @@ "y" :> JBool(TRUE))
          @@ "l" :> JList(<<JObj("y" :> JInt(2))>>) @@ "s" :> JList(<<JFloat(15)>>)),
     JObj("l" :> JList(<<>>) @@ "s" :> JList(<<>>)),
     JObj("o" :> JInt(1))}

InitInfer ==
    /\ inf \in {[values |-> l, node |-> Pending] : l \in Lists(InferItems, MaxItems)}
    /\ conv = NoConv
    /\ mrg = NoMerge
    /\ built = NoBuilt
    /\ Idle

\* The list is inferred.
Infer ==
    /\ inf.node = Pending
    /\ inf' = [inf EXCEPT !.node = infer_array(inf.values, <<"items">>)]
    /\ UNCHANGED <<conv, writer, sample, db, nextId, history, last, mrg, built, req, pag, pre, ing>>

NextInfer == Infer

SpecInfer == InitInfer /\ [][NextInfer]_vars

MaxMerges == 3  \* the most types merged into one field

InitMerge ==
    /\ mrg \in {[types |-> <<a>>, prev |-> "None", field |-> a, back |-> "None"] :
                    a \in ScalarTypes}
    /\ conv = NoConv
    /\ inf = NoInf
    /\ built = NoBuilt
    /\ Idle

\* One more observed type is merged into the field: the merge the code
\* makes, and the same merge with its arguments exchanged.
Merge(b) ==
    /\ Len(mrg.types) < MaxMerges
    /\ mrg' = [types |-> Append(mrg.types, b),
               prev |-> mrg.field,
               field |-> merge_scalar_type(mrg.field, b),
               back |-> merge_scalar_type(b, mrg.field)]
    /\ UNCHANGED <<conv, inf, writer, sample, db, nextId, history, last, built, req, pag, pre, ing>>

NextMerge == \E b \in ScalarTypes : Merge(b)

SpecMerge == InitMerge /\ [][NextMerge]_vars

----------------------------------------------------------------------------
(* The schema inference run twice on one sample: _infer_schema on a JSON    *)
(* sample, on a JSON schema, and on what is neither.                        *)

MaxSampleItems == 2  \* the most items of the sample's list

TypeSchema(type) == JObj("type" :> Word(type))

\* Schemas of one property: the scalar types, a nullable type, a date-time,
\* an enum, objects and arrays with and without their type, and a value
\* that is no schema.
PropertySchemas ==
    {TypeSchema("string"), TypeSchema("integer"), TypeSchema("array"), EmptyObj, JInt(1),
     JObj("type" :> JList(<<Word("null"), Word("number")>>)),
     JObj("type" :> Word("string") @@ "format" :> Word("date-time")),
     JObj("enum" :> JList(<<Word("x")>>)),
     JObj("type" :> Word("object") @@ "properties" :> JObj("x" :> TypeSchema("boolean"))
            @@ "required" :> JList(<<Word("x")>>)),
     JObj("properties" :> JObj("x" :> TypeSchema("string"))),
     JObj("type" :> Word("array") @@ "items" :> TypeSchema("integer")),
     JObj("items" :> JObj("properties" :> JObj("x" :> TypeSchema("number")))),
     JObj("type" :> Word("array") @@ "items" :> JObj("items" :> TypeSchema("boolean")))}

\* JSON schemas of a root with the properties a and b: plain, with a
\* required property, and with a subschema that overrides a.
SchemaDocuments ==
    {JObj("type" :> Word("object") @@ "properties" :> JObj("a" :> p @@ "b" :> q)) :
        p, q \in PropertySchemas}
    \cup {JObj("properties" :> JObj("a" :> p @@ "b" :> q)
               @@ "required" :> JList(<<Word("a")>>)) : p, q \in PropertySchemas}
    \cup {JObj("properties" :> JObj("a" :> p)
               @@ "allOf" :> JList(<<JObj("properties" :> JObj("a" :> q)
                                          @@ "required" :> JList(<<Word("a")>>))>>)) :
            p, q \in PropertySchemas}

\* JSON samples: a root with a list of items, a root of scalars and nested
\* values, a dict with "properties" that is no object schema, and values
\* that are no dict.
SampleDocuments ==
    {JObj("items" :> JList(l)) : l \in Lists(InferItems, MaxSampleItems)}
        \cup InferItems
        \cup {JObj("type" :> Word("string") @@ "properties" :> JObj("a" :> TypeSchema("integer")))}

InitSchema ==
    /\ inf \in {[given |-> s, sample |-> s, node |-> Pending, again |-> Pending] :
                    s \in SchemaDocuments \cup SampleDocuments}
    /\ conv = NoConv
    /\ mrg = NoMerge
    /\ built = NoBuilt
    /\ Idle

\* The first run of the inference on the sample.
InferSchema ==
    /\ inf.node = Pending
    /\ inf' = [inf EXCEPT !.node = infer_schema(inf.sample, "register_entries"),
                          !.sample = sample_read(inf.sample)]
    /\ UNCHANGED <<conv, writer, sample, db, nextId, history, last, mrg, built, req, pag, pre, ing>>

\* The second run, on the sample as the first run left it.
InferSchemaAgain ==
    /\ inf.node # Pending
    /\ inf.again = Pending
    /\ inf' = [inf EXCEPT !.again = infer_schema(inf.sample, "register_entries"),
                          !.sample = sample_read(inf.sample)]
    /\ UNCHANGED <<conv, writer, sample, db, nextId, history, last, mrg, built, req, pag, pre, ing>>

NextSchema == InferSchema \/ InferSchemaAgain

SpecSchema == InitSchema /\ [][NextSchema]_vars

----------------------------------------------------------------------------
(* The table builders, each applied to the properties of a root: a node of  *)
(* the inference for build_schema_from_sample, a resolved schema for        *)
(* SchemaBuilder.build.                                                     *)

MaxProps == 2  \* the most properties of the root

\* Names of scalar properties: two that differ only in their spelling,
\* names that meet the key column or the name that replaces a taken one, and
\* the natural key of the root.
ScalarNames ==
    {<<"v">>, <<"a", "B">>, <<"a", "_", "b">>, IdName, <<"i", "d", "_", "v", "a", "l", "u", "e">>,
     RegisterNumberName}

\* Names of nested properties: two that differ only in their spelling and
\* two whose table names are cut.
NestedNames == {<<"a", "B">>, <<"a", "_", "b">>, LongName("a"), LongName("b")}

\* The one scalar property of a nested object.
InnerNames == {<<"v">>, PositionName, <<"p", "a", "r", "e", "n", "t", "I", "d">>}

Scalar(name) == [name |-> name, kind |-> "scalar", properties |-> <<>>]

Properties ==
    {Scalar(name) : name \in ScalarNames}
        \cup {[name |-> name, kind |-> "scalar_array", properties |-> <<>>] : name \in NestedNames}
        \cup {[name |-> name, kind |-> kind, properties |-> <<Scalar(inner)>>] :
                name \in NestedNames, kind \in {"object", "many"}, inner \in InnerNames}

RootProperties == UNION {[1..n -> Properties] : n \in 0..MaxProps}

\* The dict of a node that holds a property of this kind.
DictOf(kind) == IF kind \in {"many", "scalar_array"} THEN "arrays" ELSE kind

\* A node the inference can return: a dict holds a name once.
IsNode(properties) ==
    \A i, j \in DOMAIN properties :
        (properties[i].name = properties[j].name
            /\ DictOf(properties[i].kind) = DictOf(properties[j].kind)) => i = j

\* A schema: its properties dict holds a name once.
IsSchema(properties) ==
    \A i, j \in DOMAIN properties : properties[i].name = properties[j].name => i = j

InitBuild ==
    /\ built \in {[builder |-> "", input |-> properties, out |-> Null] :
                    properties \in RootProperties}
    /\ conv = NoConv
    /\ inf = NoInf
    /\ mrg = NoMerge
    /\ Idle

BuildFromSample ==
    /\ built.builder = ""
    /\ IsNode(built.input)
    /\ built' = [builder |-> "build_schema_from_sample", input |-> built.input,
                 out |-> build_schema_from_sample(
                            [path |-> <<RegisterEntries>>, properties |-> built.input])]
    /\ UNCHANGED <<conv, inf, writer, sample, db, nextId, history, last, mrg, req, pag, pre, ing>>

BuildFromOpenApi ==
    /\ built.builder = ""
    /\ IsSchema(built.input)
    /\ built' = [builder |-> "build_schema_from_openapi", input |-> built.input,
                 out |-> build(built.input)]
    /\ UNCHANGED <<conv, inf, writer, sample, db, nextId, history, last, mrg, req, pag, pre, ing>>

NextBuild == BuildFromSample \/ BuildFromOpenApi

SpecBuild == InitBuild /\ [][NextBuild]_vars

----------------------------------------------------------------------------
(* What a run shows: the rows under a parent, the last two transactions *)

\* The run uses a writer of the generic engine.
Generic == writer \in {"sync_table", "persist_node"}

RootTable == RootSpec.name

DetailsTable ==
    IF writer = "sync_table" THEN "register_entries_details"
    ELSE "register_entry_versions__details"

ItemsTable ==
    IF writer = "sync_table" THEN "register_entries_items"
    ELSE "register_entry_versions__items"

TagsTable ==
    IF writer = "sync_table" THEN "register_entries_details_tags"
    ELSE "register_entry_versions__details__tags"

RowsUnder(table, parent_id) == {r \in db[table] : r[schema[table].parent_fk] = parent_id}

ItemRows(root_id) == RowsUnder(ItemsTable, root_id)

TagRows(root_id) ==
    UNION {RowsUnder(TagsTable, dr["id"]) : dr \in RowsUnder(DetailsTable, root_id)}

\* The ids of the rows a transaction's statements inserted into a table.
InsertedBy(log, table) ==
    {log[i].id : i \in {j \in 1..Len(log) :
                            log[j].op = "insert" /\ log[j].table = table /\ log[j].exc = ""}}

ItemsOf(doc) == IF IsObj(doc) THEN Get(doc, "items") ELSE Null

TagsOf(doc) ==
    IF IsObj(doc) /\ IsObj(Get(doc, "details")) THEN Get(Get(doc, "details"), "tags") ELSE Null

\* The indexes of the objects of a list.
Objects(items) == {k \in 1..Len(items) : IsObj(items[k])}

\* The document carries its natural key.
HasKey(doc) == IsObj(doc) /\ Get(doc, "registerNumber").t = "str"

Second == history[Len(history)]
First == history[Len(history) - 1]

\* The last two transactions committed and wrote the same root row.
Resynced ==
    /\ Generic
    /\ Len(history) >= 2
    /\ First.outcome = "committed"
    /\ Second.outcome = "committed"
    /\ Second.ret # Null
    /\ First.ret = Second.ret

\* Both documents hold a list there, the second a shorter one.
Fewer(first, second) ==
    IsList(first) /\ IsList(second) /\ Len(second.items) < Len(first.items)

----------------------------------------------------------------------------
(* The claims *)

\* C1 (as stated): after a parent is synced twice, the second time with an
\* array of fewer elements, the parent has exactly as many child rows as the
\* second array has elements, and none of them is a row of the first sync.
C1_ReplaceCounts ==
    Resynced =>
        /\ Fewer(ItemsOf(First.doc), ItemsOf(Second.doc)) =>
              /\ Cardinality(ItemRows(Second.ret)) = Len(ItemsOf(Second.doc).items)
              /\ \A r \in ItemRows(Second.ret) : r["id"] \notin InsertedBy(First.log, ItemsTable)
        /\ Fewer(TagsOf(First.doc), TagsOf(Second.doc)) =>
              /\ Cardinality(TagRows(Second.ret)) = Len(TagsOf(Second.doc).items)
              /\ \A r \in TagRows(Second.ret) : r["id"] \notin InsertedBy(First.log, TagsTable)

\* C1 (amended): after a parent is synced twice, the second time with an
\* array of fewer elements, the parent has one child row for each object of
\* the second array of a many relation (an element that is not an object gets
\* no row) and one for each element of a scalar array, and none of them is a
\* row of the first sync.
C1_ReplaceObjects ==
    Resynced =>
        /\ Fewer(ItemsOf(First.doc), ItemsOf(Second.doc)) =>
              /\ Cardinality(ItemRows(Second.ret))
                    = Cardinality(Objects(ItemsOf(Second.doc).items))
              /\ \A r \in ItemRows(Second.ret) : r["id"] \notin InsertedBy(First.log, ItemsTable)
        /\ Fewer(TagsOf(First.doc), TagsOf(Second.doc)) =>
              /\ Cardinality(TagRows(Second.ret)) = Len(TagsOf(Second.doc).items)
              /\ \A r \in TagRows(Second.ret) : r["id"] \notin InsertedBy(First.log, TagsTable)

\* A re-sync with a shorter, non-empty array of objects has replaced the rows
\* of a longer one.
C1_Witness ==
    /\ Resynced
    /\ Fewer(ItemsOf(First.doc), ItemsOf(Second.doc))
    /\ InsertedBy(First.log, ItemsTable) # {}
    /\ ItemRows(Second.ret) # {}
    /\ Cardinality(ItemRows(Second.ret)) = Len(ItemsOf(Second.doc).items)

\* C2: when the same root document with its natural key is synced again, in
\* a transaction of its own, the sync returns the row id the earlier sync
\* returned, writes the root table by an upsert that matched that row and
\* leaves exactly one root row with the key.
C2_UpsertIdempotent ==
    \A i \in 1..Len(history) :
        ( /\ i < Len(history)
          /\ history[i].outcome = "committed"
          /\ Second.outcome = "committed"
          /\ history[i].doc = Second.doc
          /\ HasKey(Second.doc) ) =>
            /\ Second.ret = history[i].ret
            /\ Cardinality({r \in db[RootTable] :
                    \E k \in db[RootTable] :
                        k["id"] = Second.ret /\ \A c \in RootSpec.unique : r[c] = k[c]}) = 1
            /\ \A n \in 1..Len(Second.log) :
                    Second.log[n].table = RootTable =>
                        Second.log[n].op = "upsert" /\ Second.log[n].id = history[i].ret

\* The same keyed document committed twice, the root table's sequence drawn
\* twice, one root row.
C2_Witness ==
    /\ Len(history) >= 2
    /\ First.outcome = "committed"
    /\ Second.outcome = "committed"
    /\ First.doc = Second.doc
    /\ HasKey(Second.doc)
    /\ nextId[RootTable] > 2
    /\ Cardinality(db[RootTable]) = 1

\* C3: after a re-sync of a parent row no child row of the earlier sync
\* remains in any of the tables below it, whatever the second payload holds
\* for the relation (nothing, or a value of the wrong shape).
C3_NoSurvivor ==
    Resynced =>
        \A t \in {DetailsTable, ItemsTable, TagsTable} :
            \A r \in db[t] : r["id"] \notin InsertedBy(First.log, t)

\* C4: after the sync of a document with an array of N objects commits, the
\* parent has N child rows, the row at position k holding the k-th element
\* (counted from 0), so that reading by ascending position gives the array.
C4_RoundTrip ==
    ( /\ Generic
      /\ Len(history) >= 1
      /\ Second.outcome = "committed"
      /\ Second.ret # Null
      /\ IsList(ItemsOf(Second.doc))
      /\ Objects(ItemsOf(Second.doc).items) = DOMAIN ItemsOf(Second.doc).items ) =>
        /\ Cardinality(ItemRows(Second.ret)) = Len(ItemsOf(Second.doc).items)
        /\ \A k \in DOMAIN ItemsOf(Second.doc).items :
              \E r \in ItemRows(Second.ret) :
                  /\ r["position"] = JInt(k - 1)
                  /\ r[ItemProp] = Get(ItemsOf(Second.doc).items[k], ItemProp)

C6_NotAnObject ==
    ( /\ Generic
      /\ Len(history) >= 1
      /\ Second.outcome # "aborted"
      /\ ~IsObj(Second.doc) ) =>
        /\ Second.outcome = "committed"
        /\ Second.ret = Null
        /\ Second.log = <<>>

\* C7: every row written to a table with unique columns is written by an
\* upsert whose conflict target is those columns and which sets every other
\* column of the row; every row written to any other table by a plain insert.
C7_UpsertTarget ==
    \A i \in 1..Len(history) :
        \A n \in 1..Len(history[i].log) :
            history[i].log[n].op # "delete" =>
                IF schema[history[i].log[n].table].unique # {}
                THEN /\ history[i].log[n].op = "upsert"
                     /\ history[i].log[n].target = schema[history[i].log[n].table].unique
                     /\ history[i].log[n].set
                            = history[i].log[n].cols \ schema[history[i].log[n].table].unique
                ELSE history[i].log[n].op = "insert"

\* C8: on a boolean column "true", "True", 1 and true convert to true,
\* "false", 0 and false to false, and "maybe" to None, with no exception.
C8_Boolean ==
    (conv.out # Pending /\ conv.scalar_type = "boolean") =>
        /\ conv.value \in {JStr(<<"t", "r", "u", "e">>), JStr(<<"T", "r", "u", "e">>),
                           JInt(1), JBool(TRUE)}
              => conv.out = JBool(TRUE)
        /\ conv.value \in {JStr(<<"f", "a", "l", "s", "e">>), JInt(0), JBool(FALSE)}
              => conv.out = JBool(FALSE)
        /\ conv.value = JStr(<<"m", "a", "y", "b", "e">>) => conv.out = Null

\* A value its column's type has no reading of: text that is no number for an
\* integer or number column, text that is no date-time for a datetime column,
\* an infinite float for an integer column.
Unconvertible(scalar_type, value) ==
    \/ scalar_type = "integer" /\ value.t = "str" /\ ~IsIntText(value.s)
    \/ scalar_type = "integer" /\ value = JInf
    \/ /\ scalar_type = "number" /\ value.t = "str"
       /\ ~IsDecimalText(value.s) /\ FloatSpecial(value.s) = "no"
    \/ scalar_type = "datetime" /\ value.t = "str" /\ as_datetime(value.s) = Null

\* C9: a value that cannot be converted to its column's type is converted
\* to None, with no exception.
C9_BestEffort ==
    (conv.out # Pending /\ Unconvertible(conv.scalar_type, conv.value)) => conv.out = Null

\* The widened merge of the inferred types of the first n items.
RECURSIVE Widened(_, _)
Widened(values, n) ==
    IF n = 1 THEN infer_scalar_type(values[1])
    ELSE merge_scalar_type(Widened(values, n - 1), infer_scalar_type(values[n]))

\* C10: a non-empty list with an item, at any position, that is not an object
\* is inferred as a scalar array whose type is the widened merge of every
\* item's inferred type.
C10_Degrades ==
    ( /\ inf.node # Pending
      /\ inf.values # <<>>
      /\ \E k \in DOMAIN inf.values : ~IsObj(inf.values[k]) ) =>
        /\ inf.node.kind = "scalar"
        /\ inf.node.scalar_type = Widened(inf.values, Len(inf.values))

\* The rank of a type in boolean < integer < number < datetime < text.
Rank(a) ==
    CASE a = "boolean" -> 1
      [] a = "integer" -> 2
      [] a = "number" -> 3
      [] a = "datetime" -> 4
      [] a = "text" -> 5

\* C12: merging a type b into a field of type a gives what merging a into b
\* gives, namely the higher-ranked of the two; so the merged type ranks at
\* least as high as every type merged so far, and a field that is text
\* stays text.
C12_Widening ==
    Len(mrg.types) >= 2 =>
        /\ mrg.field = mrg.back
        /\ mrg.field \in {mrg.prev, mrg.types[Len(mrg.types)]}
        /\ Rank(mrg.field) >= Rank(mrg.prev)
        /\ Rank(mrg.field) >= Rank(mrg.types[Len(mrg.types)])
        /\ \A i \in 1..Len(mrg.types) : Rank(mrg.field) >= Rank(mrg.types[i])
        /\ mrg.prev = "text" => mrg.field = "text"

\* A lower-ranked type was merged into a field of a higher-ranked one, and
\* a third type after that.
C12_Witness ==
    /\ Len(mrg.types) = 3
    /\ Rank(mrg.types[1]) > Rank(mrg.types[2])
    /\ Rank(mrg.types[3]) > Rank(mrg.types[1])
    /\ mrg.field = mrg.types[3]

\* The list was inferred and every item of it is an object.
InferredObjects ==
    /\ inf.node # Pending
    /\ inf.values # <<>>
    /\ \A k \in DOMAIN inf.values : IsObj(inf.values[k])

\* The least upper bound of a set of types in the order of the ranks.
LubOf(types) == CHOOSE t \in types : \A u \in types : Rank(t) >= Rank(u)

\* The items that hold a scalar (no dict, no list) under the name.
ScalarIn(values, name) ==
    {k \in DOMAIN values :
        name \in DOMAIN values[k].f /\ ~IsObj(values[k].f[name]) /\ ~IsList(values[k].f[name])}

\* C13: after an array of objects is inferred, each scalar field seen in an
\* item is a scalar field of the merged node, of the least upper bound of
\* the types inferred for it in the items that hold it, in whatever order
\* the items come.
C13_LeastUpperBound ==
    InferredObjects =>
        /\ inf.node.kind = "object"
        /\ \A name \in UNION {DOMAIN inf.values[k].f : k \in DOMAIN inf.values} :
              ScalarIn(inf.values, name) # {} =>
                  /\ name \in DOMAIN inf.node.object_node.scalars
                  /\ inf.node.object_node.scalars[name].scalar_type
                        = LubOf({infer_scalar_type(inf.values[k].f[name]) :
                                    k \in ScalarIn(inf.values, name)})

\* Three objects whose field a is text, then integer, then boolean: the
\* merged field is text.
C13_Witness ==
    /\ InferredObjects
    /\ Len(inf.values) = 3
    /\ ScalarIn(inf.values, "a") = 1..3
    /\ infer_scalar_type(inf.values[1].f["a"]) = "text"
    /\ infer_scalar_type(inf.values[2].f["a"]) = "integer"
    /\ infer_scalar_type(inf.values[3].f["a"]) = "boolean"
    /\ inf.node.object_node.scalars["a"].scalar_type = "text"

\* C15: an empty list is inferred as a scalar array of text, the list given
\* to the inference as well as a list under a property of an object.
C15_EmptyDefault ==
    inf.node # Pending =>
        /\ inf.values = <<>> =>
              /\ inf.node.kind = "scalar"
              /\ inf.node.scalar_type = "text"
              /\ inf.node.object_node = Null
        /\ (Len(inf.values) = 1 /\ IsObj(inf.values[1])) =>
              \A name \in DOMAIN inf.values[1].f :
                  inf.values[1].f[name] = JList(<<>>) =>
                      /\ name \in DOMAIN inf.node.object_node.arrays
                      /\ inf.node.object_node.arrays[name] = NodeArray("scalar", "text", Null)

\* The empty list has been inferred.
C15_Witness ==
    /\ inf.values = <<>>
    /\ inf.node # Pending
    /\ inf.node.kind = "scalar"

\* The items that hold an object under the name.
ObjectIn(values, name) ==
    {k \in DOMAIN values : name \in DOMAIN values[k].f /\ IsObj(values[k].f[name])}

\* The items that hold a list under the name.
ListIn(values, name) ==
    {k \in DOMAIN values : name \in DOMAIN values[k].f /\ IsList(values[k].f[name])}

\* The elements of the lists the items hold under the name.
ElementsIn(values, name) ==
    UNION {{values[k].f[name].items[i] : i \in DOMAIN values[k].f[name].items} :
              k \in ListIn(values, name)}

\* C16: after an array of objects is inferred, the merged node of a nested
\* object property has every field seen under the property in any item, of
\* the widened type; the merged node of a nested array of objects has every
\* field seen in any element of any item's array; a nested scalar array has
\* the widened type of all elements seen.
C16_RecursiveMerge ==
    InferredObjects =>
        \A name \in UNION {DOMAIN inf.values[k].f : k \in DOMAIN inf.values} :
            /\ ObjectIn(inf.values, name) # {} =>
                  /\ name \in DOMAIN inf.node.object_node.objects
                  /\ \A x \in UNION {DOMAIN inf.values[k].f[name].f :
                                        k \in ObjectIn(inf.values, name)} :
                        /\ x \in DOMAIN inf.node.object_node.objects[name].scalars
                        /\ inf.node.object_node.objects[name].scalars[x].scalar_type
                              = LubOf({infer_scalar_type(inf.values[k].f[name].f[x]) :
                                          k \in {j \in ObjectIn(inf.values, name) :
                                                    x \in DOMAIN inf.values[j].f[name].f}})
            /\ (ElementsIn(inf.values, name) # {}
                  /\ \A e \in ElementsIn(inf.values, name) : IsObj(e)) =>
                  /\ name \in DOMAIN inf.node.object_node.arrays
                  /\ inf.node.object_node.arrays[name].kind = "object"
                  /\ \A e \in ElementsIn(inf.values, name) :
                        \A x \in DOMAIN e.f :
                            x \in DOMAIN inf.node.object_node.arrays[name].object_node.scalars
            /\ (ElementsIn(inf.values, name) # {}
                  /\ \A e \in ElementsIn(inf.values, name) : ~IsObj(e)) =>
                  /\ name \in DOMAIN inf.node.object_node.arrays
                  /\ inf.node.object_node.arrays[name].kind = "scalar"
                  /\ Rank(inf.node.object_node.arrays[name].scalar_type)
                        >= Rank(LubOf({infer_scalar_type(e) : e \in ElementsIn(inf.values, name)}))

----------------------------------------------------------------------------
(* The table builders: what is observed of a finished build.                *)

\* The table or node a builder's reference names.
TableOf(out, ref) ==
    IF "nodes" \in DOMAIN out THEN out.nodes[ref] ELSE out.tables_by_name[ref]

\* The relations of a table to its children, in the order they were added.
RelationsOf(table) ==
    IF "relations" \in DOMAIN table THEN table.relations
    ELSE table.object_children \o table.array_children

\* The structural paths at and below a table, each with the name of the
\* table the builder gave it: the property names from the root on.
RECURSIVE Named(_, _, _)
Named(out, ref, path) ==
    {<<path, TableOf(out, ref).name>>}
        \cup UNION {Named(out, RelationsOf(TableOf(out, ref))[n].target,
                          Append(path, RelationsOf(TableOf(out, ref))[n].name)) :
                        n \in DOMAIN RelationsOf(TableOf(out, ref))}

\* The same builder run again on the same input.
Rebuilt ==
    IF built.builder = "build_schema_from_sample"
    THEN build_schema_from_sample([path |-> <<RegisterEntries>>, properties |-> built.input])
    ELSE build(built.input)

\* C11: after a build, two distinct structural paths have distinct table
\* names, every table name has between 1 and 63 characters, and a second
\* run on the same input gives every path the same name.
C11_DistinctNames ==
    built.builder # "" =>
        /\ \A p, q \in Named(built.out, built.out.root, <<RegisterEntries>>) :
              /\ p[1] # q[1] => p[2] # q[2]
              /\ Len(p[2]) \in 1..MAX_IDENTIFIER_LENGTH
        /\ Named(Rebuilt, Rebuilt.root, <<RegisterEntries>>)
              = Named(built.out, built.out.root, <<RegisterEntries>>)

\* The names of the tables or the paths of the nodes of a build.
TablesOf(out) ==
    IF "nodes" \in DOMAIN out THEN DOMAIN out.nodes ELSE DOMAIN out.tables_by_name

\* The names of the columns of a table.
ColumnsOf(table) ==
    IF "table_columns" \in DOMAIN table THEN table.table_columns ELSE table.columns

\* The mark the writers read before they store the list index.
PositionCarrying(table) ==
    IF "position_column" \in DOMAIN table THEN table.position_column ELSE table.is_array

\* The relations of a table to the tables of its arrays.
ArrayRelations(table) ==
    IF "relations" \in DOMAIN table
    THEN SelectSeq(table.relations, LAMBDA r : r.relation \in {"many", "scalar_array"})
    ELSE table.array_children

\* The tables that are the target of a many or scalar-array relation.
ArrayTargets(out) ==
    UNION {{ArrayRelations(TableOf(out, ref))[n].target :
                n \in DOMAIN ArrayRelations(TableOf(out, ref))} : ref \in TablesOf(out)}

\* C17: after a build, every table that is the target of a many or
\* scalar-array relation has a position column and is marked as carrying
\* the position.
C17_PositionColumn ==
    built.builder # "" =>
        \A ref \in ArrayTargets(built.out) :
            /\ PositionName \in Range(ColumnsOf(TableOf(built.out, ref)))
            /\ PositionCarrying(TableOf(built.out, ref))

\* The scalar fields of a table, each with the column it is stored in.
FieldsOf(table) == IF "scalars" \in DOMAIN table THEN table.scalars ELSE table.columns

\* No value occurs twice in the sequence.
Distinct(s) == \A i, j \in DOMAIN s : s[i] = s[j] => i = j

\* C18: after a build, the column names of every table (identity, parent
\* key, position and the scalar fields' columns) are pairwise distinct and
\* no two scalar fields of a table are stored in the same column.
C18_DistinctColumns ==
    built.builder # "" =>
        \A ref \in TablesOf(built.out) :
            /\ Distinct(ColumnsOf(TableOf(built.out, ref)))
            /\ Distinct([n \in DOMAIN FieldsOf(TableOf(built.out, ref)) |->
                            FieldsOf(TableOf(built.out, ref))[n].column_name])

\* The kinds of the root's properties of this name.
KindsOf(name) == {built.input[i].kind : i \in {j \in DOMAIN built.input : built.input[j].name = name}}

\* The relations of the root whose property is of one of these kinds: the
\* TableSpec relation says so, a TableNode child by the schema of its property.
RootRelations(out, kinds) ==
    IF "relations" \in DOMAIN TableOf(out, out.root)
    THEN SelectSeq(TableOf(out, out.root).relations,
                   LAMBDA r : (IF r.relation = "one" THEN "object" ELSE r.relation) \in kinds)
    ELSE SelectSeq(RelationsOf(TableOf(out, out.root)),
                   LAMBDA r : KindsOf(r.name) \cap kinds # {})

\* The tables these relations of the root target.
RootTargets(out, kinds) ==
    {RootRelations(out, kinds)[n].target : n \in DOMAIN RootRelations(out, kinds)}

\* The column that holds the parent's id.
ParentKeyOf(table) == IF "parent_fk" \in DOMAIN table THEN table.parent_fk ELSE ParentIdName

\* C20: after a build, every scalar-array relation targets a table with the
\* columns id, parent key, position and the one data column value, and no
\* table is the target of a scalar-array relation and of an object relation
\* (one or many).
C20_DedicatedTable ==
    built.builder # "" =>
        \A ref \in RootTargets(built.out, {"scalar_array"}) :
            /\ Len(ColumnsOf(TableOf(built.out, ref))) = 4
            /\ Range(ColumnsOf(TableOf(built.out, ref)))
                  = {IdName, ParentKeyOf(TableOf(built.out, ref)), PositionName, ValueName}
            /\ ref \notin RootTargets(built.out, {"object", "many"})

----------------------------------------------------------------------------
(* The writers: parents and children *)

\* The statements of a log that wrote a row: their indexes.
Writes(log) == {i \in DOMAIN log : log[i].op \in {"insert", "upsert"} /\ log[i].exc = ""}

\* The statements of a log that wrote a row in a child table.
ChildWrites(log) == {i \in Writes(log) : schema[log[i].table].parent # ""}

\* The last row written in the table before the i-th statement, or 0.
LastWrite(log, table, i) ==
    IF \E j \in Writes(log) : j < i /\ log[j].table = table
    THEN CHOOSE j \in Writes(log) :
            /\ j < i /\ log[j].table = table
            /\ \A k \in Writes(log) : (k < i /\ log[k].table = table) => k <= j
    ELSE 0

\* Every row of a child table holds the id of a row of the parent table.
Referential(rows) ==
    \A t \in DOMAIN rows :
        schema[t].parent # "" =>
            \A r \in rows[t] :
                \E p \in rows[schema[t].parent] : p["id"] = r[schema[t].parent_fk]

\* C19: in the statements of every document, a row is written in a child
\* table only after a row was written in its parent table, and the parent
\* key it stores is the id the last such statement returned; in every
\* committed database each child row references a row of its parent table.
C19_ParentFirst ==
    /\ \A h \in DOMAIN history :
          \A i \in ChildWrites(history[h].log) :
              /\ LastWrite(history[h].log, schema[history[h].log[i].table].parent, i) # 0
              /\ history[h].log[i].fk
                    = history[h].log[LastWrite(history[h].log,
                                               schema[history[h].log[i].table].parent, i)].id
    /\ Referential(db)

\* A document was committed whose statements wrote rows at three levels:
\* the root, a child of it and a child of that child.
C19_Witness ==
    /\ last.outcome = "committed"
    /\ \E i \in ChildWrites(history[Len(history)].log) :
          schema[schema[history[Len(history)].log[i].table].parent].parent # ""
    /\ \E t \in DOMAIN db : schema[t].parent # "" /\ Cardinality(db[t]) >= 2

----------------------------------------------------------------------------
(* The inference run twice *)

----------------------------------------------------------------------------
(* The builders: keys of the tables *)

\* The property a scalar field of a table stands for.
PropertyOf(field) == IF "prop_name" \in DOMAIN field THEN field.prop_name ELSE field.name

\* The columns of the natural-key fields a table has.
NaturalKeyColumns(table) ==
    {FieldsOf(table)[n].column_name :
        n \in {k \in DOMAIN FieldsOf(table) : PropertyOf(FieldsOf(table)[k]) = RegisterNumberName}}

\* The table takes no NULL in any column of this name.
NotNull(table, column_name) ==
    \A n \in DOMAIN ColumnsOf(table) : ColumnsOf(table)[n] = column_name => ~table.nullable[n]

\* The unique columns of the table are those of its natural key, none of
\* which takes NULL.
NaturalKey(table) ==
    /\ Range(table.unique_columns) = NaturalKeyColumns(table)
    /\ \A column_name \in Range(table.unique_columns) : NotNull(table, column_name)

\* C21: after a build, the unique columns of the root table are the columns
\* of its natural-key fields and take no NULL, and every other table has no
\* unique column.
C21_RootOnlyNaturalKey ==
    built.builder # "" =>
        \A ref \in TablesOf(built.out) :
            IF ref = built.out.root
            THEN NaturalKey(TableOf(built.out, ref))
            ELSE TableOf(built.out, ref).unique_columns = <<>>

\* Table(name, metadata, *columns) with two columns of one name: SQLAlchemy
\* 1.4 replaces the earlier column by the later and drops the foreign key of
\* the replaced one, SQLAlchemy 2 raises DuplicateColumnError.  The outcomes
\* are the columns the table keeps, by index, or the error.
TableOutcomes(table) ==
    IF Distinct(ColumnsOf(table)) THEN {[kept |-> DOMAIN ColumnsOf(table), exc |-> ""]}
    ELSE {[kept |-> {n \in DOMAIN ColumnsOf(table) :
                        \A k \in DOMAIN ColumnsOf(table) :
                            k > n => ColumnsOf(table)[k] # ColumnsOf(table)[n]},
           exc |-> ""],
          [kept |-> {}, exc |-> "DuplicateColumnError"]}

\* The tables one of whose relations targets this table.
ParentsOf(out, ref) ==
    {p \in TablesOf(out) :
        \E n \in DOMAIN RelationsOf(TableOf(out, p)) : RelationsOf(TableOf(out, p))[n].target = ref}

\* The kept columns of the table that reference another table.
ForeignKeys(table, kept) == {n \in kept : table.references[n] # <<>>}

\* The one foreign key of the table is its parent key: it takes no NULL and
\* references the table of every parent.
ParentForeignKey(out, ref, kept) ==
    /\ Cardinality(ForeignKeys(TableOf(out, ref), kept)) = 1
    /\ \A n \in ForeignKeys(TableOf(out, ref), kept) :
          /\ ColumnsOf(TableOf(out, ref))[n] = ParentKeyOf(TableOf(out, ref))
          /\ ~TableOf(out, ref).nullable[n]
          /\ \A p \in ParentsOf(out, ref) :
                TableOf(out, ref).references[n] = TableOf(out, p).name

\* C22: after a build, every table other than the root has exactly one
\* foreign-key column, its parent key, which takes no NULL and references,
\* with ON DELETE CASCADE, the id of the table of its parent node; the root
\* table has no foreign key.
C22_ParentForeignKey ==
    built.builder # "" =>
        \A ref \in TablesOf(built.out) :
            \A made \in TableOutcomes(TableOf(built.out, ref)) :
                \/ made.exc # ""
                \/ IF ref = built.out.root
                   THEN ForeignKeys(TableOf(built.out, ref), made.kept) = {}
                   ELSE ParentForeignKey(built.out, ref, made.kept)

----------------------------------------------------------------------------
(* The inference: the three dicts of a node *)

\* No property name is a key of two of the node's dicts, in the node and in
\* every node below it.
RECURSIVE KindsDisjoint(_)
KindsDisjoint(node) ==
    /\ DOMAIN node.scalars \cap DOMAIN node.objects = {}
    /\ DOMAIN node.scalars \cap DOMAIN node.arrays = {}
    /\ DOMAIN node.objects \cap DOMAIN node.arrays = {}
    /\ \A name \in DOMAIN node.objects : KindsDisjoint(node.objects[name])
    /\ \A name \in DOMAIN node.arrays :
          node.arrays[name].kind = "object" => KindsDisjoint(node.arrays[name].object_node)

\* C29: in the object node inferred for the items of a list, merged items
\* included, every property name is a key of at most one of scalars,
\* objects and arrays.
C29_KindsDisjoint ==
    (inf.node # Pending /\ inf.node.kind = "object") => KindsDisjoint(inf.node.object_node)

----------------------------------------------------------------------------
(* ingest_entry: the sections of an entry *)

\* The statements of ingest_entry come in its order: the upsert of
\* register_entry on register_number, the DELETE of every top-level table
\* for the entry's id, then the handlers' INSERTs in the order of the registry.
EntryOrder(log) ==
    \A n \in DOMAIN log :
        IF n = 1
        THEN log[n].op = "upsert" /\ log[n].table = "register_entry"
                /\ log[n].target = {"register_number"}
        ELSE IF n <= 1 + Len(TOP_LEVEL_TABLES)
        THEN log[n].op = "delete" /\ log[n].table = TOP_LEVEL_TABLES[n - 1]
                /\ log[n].target = {"entry_id"} /\ log[n].id = log[1].id
        ELSE /\ log[n].op = "insert"
             /\ \E k \in DOMAIN SECTION_HANDLERS :
                   /\ log[n].table = TOP_LEVEL_TABLES[k]
                   /\ \A m \in (2 + Len(TOP_LEVEL_TABLES))..(n - 1) :
                         \E j \in 1..(k - 1) : log[m].table = TOP_LEVEL_TABLES[j]

\* The rows a table holds for an entry.
RowsOfEntry(table, entry_id) == {r \in db[table] : r["entry_id"] = entry_id}

\* The ids of the rows the statements of a log inserted into a table.
InsertedInto(log, table) ==
    {log[n].id : n \in {k \in DOMAIN log : log[k].op = "insert" /\ log[k].table = table
                                              /\ log[k].exc = ""}}

\* The rows of the n-th section's table for the entry are those this log
\* inserted, none when the document has no object under the section's key.
SectionReplaced(n, entry_id, doc, log) ==
    /\ {r["id"] : r \in RowsOfEntry(TOP_LEVEL_TABLES[n], entry_id)}
          = InsertedInto(log, TOP_LEVEL_TABLES[n])
    /\ ~IsObj(Get(doc, SECTION_HANDLERS[n].key))
          => RowsOfEntry(TOP_LEVEL_TABLES[n], entry_id) = {}

\* The entry returned is the one row of register_entry with the document's
\* register number.
EntryUpserted(entry_id, doc) ==
    scalar(doc, "registerNumber") # Null =>
        {r["id"] : r \in {e \in db["register_entry"] :
                            e["register_number"] = scalar(doc, "registerNumber")}} = {entry_id}

----------------------------------------------------------------------------
(* api.py and api_client.py: _request_json.  One call is the record         *)
(*   [client, max_retries, backoff_factor, backoff_max, attempt,            *)
(*    sleep_time, slept, seen, out]                                         *)
(* seen is the responses to the requests issued so far, slept the waits     *)
(* between them and out the JSON returned or the exception raised.  A       *)
(* response is [status_code, body]; status_code 0 stands for a request      *)
(* that got no response (httpx.RequestError).  raise_for_status raises for  *)
(* the 4xx and 5xx statuses.  Times are whole seconds.                      *)

Larger(a, b) == IF a >= b THEN a ELSE b
Smaller(a, b) == IF a <= b THEN a ELSE b

\* max_attempts = max(1, max_retries + 1)
max_attempts(r) == Larger(1, r.max_retries + 1)

\* base_backoff = max(backoff_factor, 0.0) or 1.0
base_backoff(r) == IF Larger(r.backoff_factor, 0) = 0 THEN 1 ELSE Larger(r.backoff_factor, 0)

\* backoff_ceiling: backoff_max when positive, else infinity (0 here)
backoff_ceiling(r) == IF r.backoff_max > 0 THEN r.backoff_max ELSE 0

\* min(sleep_time, backoff_ceiling)
wait_time(r) ==
    IF backoff_ceiling(r) = 0 THEN r.sleep_time ELSE Smaller(r.sleep_time, backoff_ceiling(r))

\* _next_backoff
next_backoff(current, base, ceiling) ==
    Larger(IF ceiling > 0 THEN Smaller(Larger(current, base) * 2, ceiling)
           ELSE Larger(current, base) * 2,
           base)

\* A faulty retryable_status, for C26: every error status is retried.
AnyStatus(status_code) == TRUE

\* retryable = status_code >= 500 or status_code in {408, 429}
retryable_status(status_code) == status_code >= 500 \/ status_code \in {408, 429}

\* _should_retry
should_retry(attempt, max_attempts_, retryable) == retryable /\ attempt < max_attempts_

\* The exception a call raises: api.py wraps the httpx errors in ApiError,
\* api_client.py raises them again as they are.
Raises(r, exc, wrapped) ==
    [r EXCEPT !.out = Raise(IF r.client = "api" THEN wrapped ELSE exc)]

\* await asyncio.sleep(wait_time); sleep_time = self._next_backoff(...)
Sleeps(r) ==
    [r EXCEPT !.slept = Append(@, wait_time(r)),
              !.sleep_time = next_backoff(r.sleep_time, base_backoff(r), backoff_ceiling(r))]

\* The call after the while loop, which it leaves when no attempt is left.
LoopEnds(r) ==
    IF r.out = Pending /\ r.attempt >= max_attempts(r)
    THEN [r EXCEPT !.out = Raise(IF r.client = "api" THEN "ApiError" ELSE "ApiClientError")]
    ELSE r

\* One pass of the while loop, attempt counted and the response at hand.
Handled(r, response) ==
    IF response.status_code = 0
    THEN IF ~should_retry(r.attempt, max_attempts(r), TRUE)
         THEN Raises(r, "RequestError", "ApiError")
         ELSE Sleeps(r)
    ELSE IF response.status_code < 400
    THEN IF response.body = "json" THEN [r EXCEPT !.out = [t |-> "json"]]
         ELSE [r EXCEPT !.out = Raise("JSONDecodeError")]
    ELSE IF response.status_code = 404
    THEN [r EXCEPT !.out = Raise("ResourceNotFoundError")]
    ELSE IF ~should_retry(r.attempt, max_attempts(r), retryable_status(response.status_code))
    THEN Raises(r, "HTTPStatusError", "ApiError")
    ELSE Sleeps(r)

request_json(r, response) ==
    LoopEnds(Handled([r EXCEPT !.attempt = @ + 1, !.seen = Append(@, response)], response))

MaxRetries == 2     \* the largest max_retries of a client
MaxBackoff == 3     \* the largest backoff_max, in seconds

StatusCodes == {200, 400, 404, 408, 429, 500, 503}

Responses ==
    {[status_code |-> c, body |-> "json"] : c \in StatusCodes}
        \cup {[status_code |-> 200, body |-> "text"], [status_code |-> 0, body |-> ""]}

\* Nothing but the network is at work.
Still ==
    /\ conv = NoConv
    /\ inf = NoInf
    /\ mrg = NoMerge
    /\ built = NoBuilt
    /\ writer = "none"
    /\ sample = ""
    /\ db = <<>>
    /\ nextId = <<>>
    /\ history = <<>>
    /\ last = NoLast

model == <<conv, inf, writer, sample, db, nextId, history, last, mrg, built>>

\* http_max_retries is max(0, HTTP_MAX_RETRIES) in config.py; the ApiConfig
\* of api_client.py is taken as it is given.
InitRequest ==
    /\ req \in {[client |-> c, max_retries |-> m, backoff_factor |-> f, backoff_max |-> b,
                 attempt |-> 0, sleep_time |-> IF f = 0 THEN 1 ELSE f, slept |-> <<>>,
                 seen |-> <<>>, out |-> Pending] :
                    c \in {"api", "api_client"}, m \in -1..MaxRetries, f \in {0, 2},
                    b \in {0, MaxBackoff}}
    /\ req.client = "api" => req.max_retries >= 0
    /\ pag = NoPag /\ pre = NoPre /\ ing = NoRun
    /\ Still

\* self._client.get(...) is answered and the pass of the loop runs to its end.
Request(response) ==
    /\ req.out = Pending
    /\ req.attempt < max_attempts(req)
    /\ req' = request_json(req, response)
    /\ UNCHANGED <<model, pag, pre, ing>>

NextRequest == \E response \in Responses : Request(response)

SpecRequest == InitRequest /\ [][NextRequest]_vars

\* The response is one the loop tries again after.
Retried(response) == response.status_code \in {0, 408, 429} \/ response.status_code >= 500

\* What a call that ended on this response has as its outcome.
Outcome(r, response) ==
    IF response.status_code = 0
    THEN Raise(IF r.client = "api" THEN "ApiError" ELSE "RequestError")
    ELSE IF response.status_code < 400
    THEN IF response.body = "json" THEN [t |-> "json"] ELSE Raise("JSONDecodeError")
    ELSE IF response.status_code = 404 THEN Raise("ResourceNotFoundError")
    ELSE Raise(IF r.client = "api" THEN "ApiError" ELSE "HTTPStatusError")

\* C26: a call issues at most max(1, max_retries + 1) requests and sleeps
\* between two requests only; every response but the last is a retryable
\* status (408, 429, 500 and above) or a network error; the call goes on
\* exactly while such a response leaves an attempt; a 2xx response ends it
\* with the JSON, a 404 with ResourceNotFoundError, any other status with an
\* error, at once, and a retryable one with an error when no attempt is left.
C26_BoundedRetry ==
    req.client # "" =>
        /\ Len(req.seen) = req.attempt
        /\ req.attempt <= max_attempts(req)
        /\ \A n \in 1..(Len(req.seen) - 1) : Retried(req.seen[n])
        /\ Len(req.slept) = IF req.out = Pending THEN Len(req.seen)
                            ELSE Len(req.seen) - 1
        /\ req.out = Pending =>
              /\ req.attempt < max_attempts(req)
              /\ \A n \in DOMAIN req.seen : Retried(req.seen[n])
        /\ req.out # Pending =>
              /\ req.seen # <<>>
              /\ req.out = Outcome(req, req.seen[Len(req.seen)])
              /\ Retried(req.seen[Len(req.seen)]) => req.attempt = max_attempts(req)

\* A call used its three attempts on retryable responses and raised.
C26_Witness ==
    /\ req.client = "api_client"
    /\ req.max_retries = 2
    /\ Len(req.seen) = 3
    /\ req.seen[1].status_code = 503 /\ req.seen[2].status_code = 0
    /\ req.seen[3].status_code = 429
    /\ req.out = Raise("HTTPStatusError")
    /\ req.slept = <<2, 3>>

----------------------------------------------------------------------------
(* The cursor loop of iter_register_entries (api_client.py) and of          *)
(* fetch_pages (api.py).  One iteration is the record                       *)
(*   [client, cursor, seen_cursors, requested, yielded, done, error]        *)
(* requested is the cursor parameter of each request sent so far ("None"    *)
(* for a request without one), yielded the pages whose entries were handed  *)
(* on, each named by the request that fetched it.  A cursor is a sequence   *)
(* of characters; the cursor of a response may also be absent or no string. *)

NoCursor == [t |-> "null"]

\* The cursors a response may hold: none, a number, the empty string, three texts.
CursorValues ==
    {NoCursor, JInt(5), JStr(<<>>), JStr(<<"a">>), JStr(<<"b">>), JStr(<<"c">>)}

\* if cursor: params["cursor"] = cursor
CursorParam(cursor) == IF Truthy(cursor) THEN cursor ELSE NoCursor

\* The rest of a pass of the loop, from the response's cursor on.
Advance(p, next_cursor) ==
    IF next_cursor.t # "str" THEN [p EXCEPT !.done = TRUE]
    ELSE IF next_cursor = p.cursor \/ next_cursor \in p.seen_cursors
    THEN [p EXCEPT !.done = TRUE]
    ELSE [p EXCEPT !.seen_cursors = @ \cup {next_cursor}, !.cursor = next_cursor]

\* One pass of the loop: the request, the entries handed on, the cursor.
fetch_page(p, next_cursor) ==
    Advance([p EXCEPT !.requested = Append(@, CursorParam(p.cursor)),
                      !.yielded = Append(@, CursorParam(p.cursor))],
            next_cursor)

InitPages ==
    /\ pag \in {[client |-> c, cursor |-> NoCursor, seen_cursors |-> {}, requested |-> <<>>,
                 yielded |-> <<>>, done |-> FALSE, error |-> ""] :
                    c \in {"api", "api_client"}}
    /\ req = NoReq /\ pre = NoPre /\ ing = NoRun
    /\ Still

\* The server answers with a page that holds this cursor.
Page(next_cursor) ==
    /\ ~pag.done
    /\ pag' = fetch_page(pag, next_cursor)
    /\ UNCHANGED <<model, req, pre, ing>>

\* _request_json or _extract_entries raises.
PageError ==
    /\ ~pag.done
    /\ pag' = [pag EXCEPT !.requested = Append(@, CursorParam(pag.cursor)),
                          !.done = TRUE,
                          !.error = IF pag.client = "api" THEN "ApiError" ELSE "ApiClientError"]
    /\ UNCHANGED <<model, req, pre, ing>>

NextPages == (\E next_cursor \in CursorValues : Page(next_cursor)) \/ PageError

SpecPages == InitPages /\ [][NextPages]_vars

\* Every request is answered.
FairPages == SpecPages /\ WF_vars(NextPages)

\* C27: no two requests of an iteration carry the same cursor parameter, and
\* the entries of every page fetched were handed on.
C27_NoRepeats ==
    pag.client # "" =>
        /\ Distinct(pag.requested)
        /\ pag.error = "" => pag.yielded = pag.requested

\* C27, the end: the iteration ends.
C27_Terminates == pag.client # "" ~> pag.done

----------------------------------------------------------------------------
(* api.py: iter_register_entries with its fetch task.  The record is        *)
(*   [fetch, item, more, fetched, fetch_error, queue, enqueued, maxsize,    *)
(*    consumer, yielded, raised]                                            *)
(* fetch is where the task fetch_pages waits: "request" in _request_json,   *)
(* "put" in queue.put of the page item, "stop" in queue.put of the stop     *)
(* token in its finally; "done" when it returned and "cancelled" when a     *)
(* CancelledError left it.  A page is [page, entries]: its number and       *)
(* whether it holds entries; more says that the loop goes on after it.      *)
(* consumer is where the generator waits: "get" in queue.get, "yield" at    *)
(* its yield, "join" in await fetch_task; "ended", "raised" and "closed"    *)
(* when it is over.  A task runs from one wait to the next in one step, as  *)
(* the event loop runs it.                                                  *)

StopToken == [page |-> 0, entries |-> FALSE]

Full(p) == Len(p.queue) >= p.maxsize

\* queue.put_nowait(item)
Enqueued(p, item) ==
    [p EXCEPT !.queue = Append(@, item), !.enqueued = Append(@, item)]

\* The fetch task runs on from a queue.put until it has to wait or is over.
RECURSIVE FetchOn(_)
FetchOn(p) ==
    IF p.fetch = "put" /\ ~Full(p)
    THEN FetchOn([Enqueued(p, p.item) EXCEPT !.fetch = IF p.more THEN "request" ELSE "stop"])
    ELSE IF p.fetch = "stop" /\ ~Full(p)
    THEN [Enqueued(p, StopToken) EXCEPT !.fetch = "done"]
    ELSE p

\* fetch_task.cancel() and the task's next step: the CancelledError is
\* raised where the task waits.  In the try block it is caught, kept as
\* fetch_error, and the finally block puts the stop token; in the finally
\* block it leaves the task.
Cancelled(p) ==
    IF p.fetch \in {"request", "put"}
    THEN FetchOn([p EXCEPT !.fetch = "stop", !.fetch_error = "CancelledError"])
    ELSE IF p.fetch = "stop" THEN [p EXCEPT !.fetch = "cancelled"]
    ELSE p

\* The generator after its loop and its finally block, the task being over:
\* if fetch_error: raise fetch_error
AfterLoop(p) ==
    IF p.fetch_error # "" THEN [p EXCEPT !.consumer = "raised", !.raised = p.fetch_error]
    ELSE [p EXCEPT !.consumer = "ended"]

\* The generator runs on from queue.get until it has to wait, yields or
\* has taken the stop token.
RECURSIVE ConsumeOn(_)
ConsumeOn(p) ==
    IF p.queue = <<>> THEN [p EXCEPT !.consumer = "get"]
    ELSE IF Head(p.queue) = StopToken
    THEN IF p.fetch \in {"done", "cancelled"}
         THEN AfterLoop([p EXCEPT !.queue = Tail(@)])
         ELSE [Cancelled([p EXCEPT !.queue = Tail(@)]) EXCEPT !.consumer = "join"]
    ELSE IF Head(p.queue).entries
    THEN [p EXCEPT !.queue = Tail(@), !.consumer = "yield",
                   !.yielded = Append(@, Head(p.queue).page)]
    ELSE ConsumeOn([p EXCEPT !.queue = Tail(@)])

MaxPages == 3       \* the most pages the server has
MaxQueue == 2       \* the largest http_concurrency, the size of the queue

InitPrefetch ==
    /\ pre \in {[fetch |-> "request", item |-> StopToken, more |-> FALSE, fetched |-> 0,
                 fetch_error |-> "", queue |-> <<>>, enqueued |-> <<>>, maxsize |-> m,
                 consumer |-> "get", yielded |-> <<>>, raised |-> ""] : m \in 1..MaxQueue}
    /\ req = NoReq /\ pag = NoPag /\ ing = NoRun
    /\ Still

\* _request_json returns a page; the task goes on to put it.
FetchPage(entries, more) ==
    /\ pre.fetch = "request"
    /\ pre.fetched < MaxPages
    /\ pre' = FetchOn([pre EXCEPT !.fetch = "put", !.fetched = @ + 1,
                                  !.item = [page |-> pre.fetched + 1, entries |-> entries],
                                  !.more = more /\ pre.fetched + 1 < MaxPages])
    /\ UNCHANGED <<model, req, pag, ing>>

\* _request_json or _extract_entries raises; the error is kept.
FetchError ==
    /\ pre.fetch = "request"
    /\ pre' = FetchOn([pre EXCEPT !.fetch = "stop", !.fetch_error = "ApiError"])
    /\ UNCHANGED <<model, req, pag, ing>>

\* The task waiting in queue.put is woken by a get and runs on.
FetchResume ==
    /\ pre.fetch \in {"put", "stop"}
    /\ ~Full(pre)
    /\ pre' = FetchOn(pre)
    /\ UNCHANGED <<model, req, pag, ing>>

\* The generator waiting in queue.get is woken by a put and runs on.
ConsumerResume ==
    /\ pre.consumer = "get"
    /\ pre.queue # <<>>
    /\ pre' = ConsumeOn(pre)
    /\ UNCHANGED <<model, req, pag, ing>>

\* The caller asks for the next entry; the page yielded had one.
NextEntry ==
    /\ pre.consumer = "yield"
    /\ pre' = ConsumeOn(pre)
    /\ UNCHANGED <<model, req, pag, ing>>

\* The caller closes the generator at its yield (aclose): the finally block
\* cancels the task when it is not done and awaits it.
Close ==
    /\ pre.consumer = "yield"
    /\ pre' = IF pre.fetch \in {"done", "cancelled"} THEN [pre EXCEPT !.consumer = "closed"]
              ELSE [Cancelled(pre) EXCEPT !.consumer = "join"]
    /\ UNCHANGED <<model, req, pag, ing>>

\* await fetch_task returns in the finally block of a closed generator.
Joined ==
    /\ pre.consumer = "join"
    /\ pre.fetch \in {"done", "cancelled"}
    /\ pre' = [pre EXCEPT !.consumer = "closed"]
    /\ UNCHANGED <<model, req, pag, ing>>

NextPrefetch ==
    \/ \E entries, more \in BOOLEAN : FetchPage(entries, more)
    \/ FetchError
    \/ FetchResume
    \/ ConsumerResume
    \/ NextEntry
    \/ Close
    \/ Joined

SpecPrefetch == InitPrefetch /\ [][NextPrefetch]_vars

\* The event loop runs every task that can run, every request is answered
\* or fails, and the caller of the generator asks for the next entry or
\* closes it.
FairPrefetch ==
    /\ SpecPrefetch
    /\ WF_vars((\E entries, more \in BOOLEAN : FetchPage(entries, more)) \/ FetchError)
    /\ WF_vars(FetchResume)
    /\ WF_vars(ConsumerResume)
    /\ WF_vars(NextEntry \/ Close)
    /\ WF_vars(Joined)


\* The numbers of the pages with entries among the items, in their order.
PagesOf(items) ==
    [n \in 1..Len(SelectSeq(items, LAMBDA item : item.entries)) |->
        SelectSeq(items, LAMBDA item : item.entries)[n].page]

\* The stop token is the one last item the task has put once it is over,
\* and no item follows a stop token.
StopTokenLast ==
    /\ \A n \in DOMAIN pre.enqueued : pre.enqueued[n] = StopToken => n = Len(pre.enqueued)
    /\ pre.fetch \in {"done", "cancelled"} =>
          pre.enqueued # <<>> /\ pre.enqueued[Len(pre.enqueued)] = StopToken

\* The pages are yielded in the order they were fetched, and all of them
\* before the generator ends or raises the fetch error.
YieldedInOrder ==
    /\ pre.yielded = SubSeq(PagesOf(pre.enqueued), 1, Len(pre.yielded))
    /\ pre.consumer \in {"ended", "raised"} => pre.yielded = PagesOf(pre.enqueued)
    /\ pre.consumer = "raised" <=> pre.raised # ""
    /\ pre.consumer = "ended" => pre.fetch_error = ""

\* The generator is over.
ConsumerOver == pre.consumer \in {"ended", "raised", "closed"}

\* C30: the fetch task puts exactly one stop token, as its last item,
\* however it ends; the pages' entries are yielded in the order of the
\* fetches and a fetch error is raised after all of them; and the generator
\* comes to its end.
C30_HandOff ==
    /\ [](pre.fetch # "" => StopTokenLast /\ YieldedInOrder)
    /\ (pre.fetch # "") ~> ConsumerOver


----------------------------------------------------------------------------
(* __main__.run_ingestion: the producer, the queue and the consumers.  ing  *)
(* is the run: producer is where the producer task is ("iterating" in the   *)
(* async for, "put" waiting in queue.put with entry, "stop" in its finally  *)
(* block, "done"), how is how the iteration ended, stops the stop tokens    *)
(* put; consumers[c].at is where consumer c is ("get" waiting in queue.get, *)
(* "write" with a write_document running in its thread, "stopped" after its *)
(* stop token, "died" when an exception left the task), attempt the pass of *)
(* its retry loop and exc the error of the pass before; docs[seq] is what   *)
(* happened to the document enqueued as number seq: how often it was taken  *)
(* from the queue, marked done and counted, and how its write ended.  A     *)
(* task runs from one wait to the next in one step.                         *)

MAX_DB_WRITE_RETRIES == 3

TRANSIENT_DB_ERRORS ==
    {"DeadlockDetected", "LockNotAvailable", "SerializationFailure", "TransactionRollback",
     "ConnectionException", "AdminShutdown", "CrashShutdown", "CannotConnectNow",
     "OperatorIntervention", "QueryCanceled"}

is_transient_db_error(exc) == exc \in TRANSIENT_DB_ERRORS

StopItem == [seq |-> 0, detail |-> Null]

QueueFull(r) == Len(r.queue) >= r.maxsize

\* queue.task_done() for the item a consumer holds
TaskDone(r, c) ==
    [r EXCEPT !.docs[r.consumers[c].item.seq].done = @ + 1]

\* item = await queue.get(), the queue holding an item, and what follows up
\* to the consumer's next wait: the stop token ends the loop, a document
\* goes to its first write.
Taken(r, c) ==
    IF Head(r.queue) = StopItem
    THEN [r EXCEPT !.queue = Tail(@), !.stops_done = @ + 1,
                   !.consumers[c] = [@ EXCEPT !.at = "stopped", !.item = StopItem,
                                              !.attempt = 0, !.exc = "",
                                              !.stops = @ + 1]]
    ELSE [r EXCEPT !.queue = Tail(@),
                   !.consumers[c] = [@ EXCEPT !.at = "write", !.item = Head(r.queue),
                                              !.attempt = 1, !.exc = ""],
                   !.docs[Head(r.queue).seq].takes = @ + 1]

\* The top of the consumer's loop.
NextItem(r, c) ==
    IF r.queue = <<>>
    THEN [r EXCEPT !.consumers[c] = [@ EXCEPT !.at = "get", !.item = StopItem,
                                              !.attempt = 0, !.exc = ""]]
    ELSE Taken(r, c)

\* The counter section after a successful write: the total hint is read
\* from the document when none is known, int() raising TypeError or
\* ValueError is suppressed, any other exception leaves the task.
Counted(r, c, hint) ==
    IF hint.t = "raise" /\ hint.exc \notin {"TypeError", "ValueError"}
    THEN [r EXCEPT !.consumers[c] = [@ EXCEPT !.at = "died", !.item = StopItem,
                                              !.attempt = 0, !.raised = hint.exc]]
    ELSE NextItem(TaskDone([r EXCEPT !.total_hint = IF hint.t = "raise" THEN @ ELSE hint,
                                     !.processed = @ + 1,
                                     !.docs[r.consumers[c].item.seq].counted = @ + 1], c), c)

PotentialTotal(detail) ==
    IF Truthy(Get(detail, "totalResultCount")) THEN Get(detail, "totalResultCount")
    ELSE Get(detail, "total_count")

Succeeded(r, c) ==
    Counted(r, c,
            IF Truthy(PotentialTotal(r.consumers[c].item.detail)) /\ ~Truthy(r.total_hint)
            THEN PyInt(PotentialTotal(r.consumers[c].item.detail))
            ELSE r.total_hint)

\* One pass of "for attempt in range(1, MAX_DB_WRITE_RETRIES + 2)" once
\* write_document has returned (exc = "") or raised exc.
Attempted(r, c, exc) ==
    IF exc = "" THEN Succeeded([r EXCEPT !.docs[r.consumers[c].item.seq].outcome = "ok"], c)
    ELSE IF is_transient_db_error(exc) /\ r.consumers[c].attempt <= MAX_DB_WRITE_RETRIES
    THEN [r EXCEPT !.consumers[c].attempt = @ + 1, !.consumers[c].exc = exc]
    ELSE NextItem(TaskDone([r EXCEPT !.docs[r.consumers[c].item.seq].outcome = "failed"], c), c)

\* The producer runs on from a queue.put until it has to wait or is over:
\* the finally block puts one stop token for every consumer.
RECURSIVE ProducerOn(_)
ProducerOn(r) ==
    IF r.producer = "stop" /\ r.stops = r.ingest_concurrency THEN [r EXCEPT !.producer = "done"]
    ELSE IF QueueFull(r) \/ r.producer \notin {"put", "stop"} THEN r
    ELSE IF r.producer = "put"
    THEN [r EXCEPT !.queue = Append(@, r.entry), !.entry = StopItem, !.producer = "iterating"]
    ELSE ProducerOn([r EXCEPT !.queue = Append(@, StopItem), !.stops = @ + 1])

NewDoc == [takes |-> 0, outcome |-> "", done |-> 0, counted |-> 0]

\* The body of the async for with one entry.
Produced(r, entry, register_number) ==
    IF Truthy(register_number) /\ register_number \in r.seen
    THEN [r EXCEPT !.entries = @ + 1]
    ELSE ProducerOn([r EXCEPT !.entries = @ + 1,
                              !.seen = IF Truthy(register_number)
                                       THEN @ \cup {register_number} ELSE @,
                              !.docs = Append(@, NewDoc),
                              !.entry = [seq |-> Len(r.docs) + 1, detail |-> entry],
                              !.producer = "put"])

\* The errors the producer task ends with: the ResourceNotFoundError is
\* logged, every other one leaves the task after the finally block.
ProducerError(r) == IF r.how = "ResourceNotFoundError" THEN "" ELSE r.how

Over(r) == \A c \in DOMAIN r.consumers : r.consumers[c].at \in {"stopped", "died"}

Died(r) == {c \in DOMAIN r.consumers : r.consumers[c].at = "died"}

MaxEntries == 2     \* the most entries the register yields in a run
MaxWorkers == 2     \* the largest ingest_concurrency
MaxSize == 1        \* the largest ingest_queue_size

RegisterNumbers == {Null, R1, R2}

Totals == {Null, JInf}

Entries ==
    {JObj([registerNumber |-> rn, totalResultCount |-> total]) :
        rn \in RegisterNumbers, total \in Totals}

WriteOutcomes == {"", "DeadlockDetected", "UniqueViolation"}

ProducerEnds == {"", "ResourceNotFoundError", "ApiError"}

\* The run after the statistics were asked for and gave no total
\* (total_hint is None), the consumers waiting in queue.get.
InitRun ==
    /\ \E n \in 1..MaxWorkers, size \in 1..MaxSize, hint \in {Null} :
          ing = [producer |-> "iterating", how |-> "", entry |-> StopItem, stops |-> 0,
                 stops_done |-> 0, seen |-> {}, entries |-> 0, docs |-> <<>>,
                 queue |-> <<>>, maxsize |-> size, ingest_concurrency |-> n,
                 consumers |-> [c \in 1..n |->
                                   [at |-> "get", item |-> StopItem, attempt |-> 0,
                                    exc |-> "", stops |-> 0, raised |-> ""]],
                 total_hint |-> hint, processed |-> 0, result |-> Pending]
    /\ req = NoReq /\ pag = NoPag /\ pre = NoPre
    /\ Still

\* iter_register_entries yields an entry to the producer.
Yield(entry) ==
    /\ ing.producer = "iterating"
    /\ ing.entries < MaxEntries
    /\ ing' = Produced(ing, entry, Get(entry, "registerNumber"))
    /\ UNCHANGED <<model, req, pag, pre>>

\* The iteration ends: normally (how = ""), or with the error how.
EndOfEntries(how) ==
    /\ ing.producer = "iterating"
    /\ ing' = ProducerOn([ing EXCEPT !.producer = "stop", !.how = how])
    /\ UNCHANGED <<model, req, pag, pre>>

\* The producer waiting in queue.put is woken by a get and runs on.
ProducerResume ==
    /\ ing.producer \in {"put", "stop"}
    /\ ~QueueFull(ing)
    /\ ing' = ProducerOn(ing)
    /\ UNCHANGED <<model, req, pag, pre>>

\* A consumer waiting in queue.get is woken by a put and runs on.  The
\* consumers waiting there are alike (no item, no attempt, no stop token
\* yet), so the first of them in number stands for the one the queue wakes.
ConsumerGet(c) ==
    /\ ing.producer # ""
    /\ c \in DOMAIN ing.consumers
    /\ ing.consumers[c].at = "get"
    /\ \A other \in 1..(c - 1) : ing.consumers[other].at # "get"
    /\ ing.queue # <<>>
    /\ ing' = Taken(ing, c)
    /\ UNCHANGED <<model, req, pag, pre>>

\* asyncio.to_thread(write_document, detail) is over: it returned, or
\* raised exc.
WriteOver(c, exc) ==
    /\ ing.producer # ""
    /\ c \in DOMAIN ing.consumers
    /\ ing.consumers[c].at = "write"
    /\ ing' = Attempted(ing, c, exc)
    /\ UNCHANGED <<model, req, pag, pre>>

\* The end of run_ingestion once the producer task is over: with the
\* producer's error after every consumer is over, else with the first
\* exception of a consumer, else with processed after every consumer is
\* over.
Finish ==
    /\ ing.producer = "done"
    /\ ing.result = Pending
    /\ IF ProducerError(ing) # ""
       THEN Over(ing) /\ ing' = [ing EXCEPT !.result = Raise(ProducerError(ing))]
       ELSE IF Died(ing) # {}
       THEN \E c \in Died(ing) : ing' = [ing EXCEPT !.result = Raise(ing.consumers[c].raised)]
       ELSE Over(ing) /\ ing' = [ing EXCEPT !.result = JInt(ing.processed)]
    /\ UNCHANGED <<model, req, pag, pre>>

NextRun ==
    \/ \E entry \in Entries : Yield(entry)
    \/ \E how \in ProducerEnds : EndOfEntries(how)
    \/ ProducerResume
    \/ \E c \in 1..MaxWorkers : ConsumerGet(c)
    \/ \E c \in 1..MaxWorkers, exc \in WriteOutcomes : WriteOver(c, exc)
    \/ Finish

SpecRun == InitRun /\ [][NextRun]_vars

\* The event loop runs every task that can run, every write comes to an
\* end, and the register's iteration yields an entry or ends.
FairRun ==
    /\ SpecRun
    /\ WF_vars((\E entry \in Entries : Yield(entry)) \/ (\E how \in ProducerEnds : EndOfEntries(how)))
    /\ WF_vars(ProducerResume)
    /\ \A c \in 1..MaxWorkers : WF_vars(ConsumerGet(c))
    /\ \A c \in 1..MaxWorkers : WF_vars(\E exc \in WriteOutcomes : WriteOver(c, exc))
    /\ WF_vars(Finish)


----------------------------------------------------------------------------
(* C25: the bounded retry of a document's write *)

\* The documents of the run whose write succeeded.
Successful(r) == {seq \in DOMAIN r.docs : r.docs[seq].outcome = "ok"}

\* A consumer in its retry loop: at most MAX_DB_WRITE_RETRIES + 1 passes,
\* and a pass after the first follows a transient error.
RetryBounded(r, c) ==
    /\ r.consumers[c].attempt <= MAX_DB_WRITE_RETRIES + 1
    /\ r.consumers[c].at = "write" /\ r.consumers[c].attempt > 1
          => r.consumers[c].exc \in TRANSIENT_DB_ERRORS
    /\ r.consumers[c].at = "write" /\ r.consumers[c].attempt = 1 => r.consumers[c].exc = ""

\* A document is marked done once when its write is over, and counted once
\* when it succeeded.
Accounted(doc) ==
    /\ doc.outcome = "" => doc.done = 0 /\ doc.counted = 0
    /\ doc.outcome = "ok" => doc.done = 1 /\ doc.counted = 1
    /\ doc.outcome = "failed" => doc.done = 1 /\ doc.counted = 0

\* C25: a document's write is attempted at most MAX_DB_WRITE_RETRIES + 1 = 4
\* times, again only after a transient error; whatever the outcome the item
\* is marked done exactly once; processed counts exactly the documents
\* whose write succeeded, and it is what run_ingestion returns.
C25_BoundedRetry ==
    ing.producer # "" =>
        /\ \A c \in DOMAIN ing.consumers : RetryBounded(ing, c)
        /\ \A seq \in DOMAIN ing.docs : Accounted(ing.docs[seq])
        /\ ing.processed = Cardinality(Successful(ing))
        /\ ing.result.t = "int" => ing.result.i = Cardinality(Successful(ing))

----------------------------------------------------------------------------
(* C24: the shutdown of the producer and the consumers *)

\* No document is behind a stop token in the queue.
StopsLast(queue) ==
    \A i, j \in DOMAIN queue : i < j /\ queue[i] = StopItem => queue[j] = StopItem

\* Every document is taken by one consumer, which has seen no stop token,
\* and no consumer takes a second stop token.
HandedOver(r) ==
    /\ StopsLast(r.queue)
    /\ \A seq \in DOMAIN r.docs : r.docs[seq].takes <= 1
    /\ \A c \in DOMAIN r.consumers :
          /\ r.consumers[c].stops <= 1
          /\ r.consumers[c].at = "write" => r.consumers[c].stops = 0

\* The run is over as it should be: every document was taken and its write
\* attempted, every consumer has ended with its one stop token, and
\* run_ingestion has returned processed or raised the producer's error.
ShutDown(r) ==
    /\ \A seq \in DOMAIN r.docs : r.docs[seq].takes = 1 /\ r.docs[seq].outcome # ""
    /\ \A c \in DOMAIN r.consumers : r.consumers[c].at = "stopped" /\ r.consumers[c].stops = 1
    /\ r.result = IF ProducerError(r) # "" THEN Raise(ProducerError(r)) ELSE JInt(r.processed)

\* C24: every document enqueued is dequeued and attempted by exactly one
\* consumer before that consumer sees a stop token, every consumer gets
\* exactly one stop token, and once the producer task is over every consumer
\* ends and run_ingestion returns or raises the producer's error.
C24_Shutdown ==
    /\ [](ing.producer # "" => HandedOver(ing))
    /\ [](ing.producer # "" /\ ing.result # Pending => ShutDown(ing))
    /\ (ing.producer = "done") ~> (ing.result # Pending)


----------------------------------------------------------------------------
(* ingest.run_ingestion: the entries one after the other, each stored in    *)
(* its own transaction, then one task per version of the entry; the tasks   *)
(* of an entry are awaited before the next entry is taken.  Here ing is     *)
(* [producer |-> "", loop, entry, entries, limit, tasks]: loop is where the *)
(* async for is ("next" at the iterator, "entry" in the entry's             *)
(* transaction, "versions" in as_completed, "over"), and a task is at       *)
(* "semaphore", at "fetch" (holding the semaphore), at "write" in its       *)
(* transaction with the key of the payload it writes, "over" or "raised".   *)

\* The versions an entry mentions: its own, that of its details and those
\* of its account's list.
Mentions(entry) ==
    (IF Get(entry, "version") # Null THEN <<Get(entry, "version").i>> ELSE <<>>)
    \o (IF Get(entry, "registerEntryDetails") # Null
        THEN <<Get(Get(entry, "registerEntryDetails"), "version").i>> ELSE <<>>)
    \o (IF Get(entry, "accountDetails") # Null
        THEN [n \in DOMAIN Get(Get(entry, "accountDetails"), "registerEntryVersions").items |->
                 Get(Get(Get(entry, "accountDetails"), "registerEntryVersions").items[n],
                     "version").i]
        ELSE <<>>)

\* sorted(versions) of a set of integers
Sorted(versions) ==
    CHOOSE s \in [1..Cardinality(versions) -> versions] :
        \A i, j \in 1..Cardinality(versions) : i < j => s[i] < s[j]

\* The set of the versions the entry mentions.
collect_versions(entry) == Range(Mentions(entry))

\* fetch_and_store_version(..., entry_model.registerNumber, version)
NewTask(register_number, version) ==
    [register_number |-> register_number, version |-> version, at |-> "semaphore",
     key |-> Null]

TasksFor(entry, versions) ==
    [n \in DOMAIN versions |-> NewTask(Get(entry, "registerNumber"), versions[n])]

\* A faulty VersionTasks, for C23: one task for every mention of a version.
TaskPerMention(entry) == TasksFor(entry, Mentions(entry))

\* version_tasks: one task for every version of sorted(collect_versions(..))
VersionTasks(entry) == TasksFor(entry, Sorted(collect_versions(entry)))


Fetching(r) == {n \in DOMAIN r.tasks : r.tasks[n].at = "fetch"}

\* The root natural key a document is written under.
KeyOf(root, doc) ==
    [root |-> root, registerNumber |-> Get(doc, "registerNumber"),
     version |-> IF root = "register_entry_versions" THEN Get(doc, "version") ELSE Null]

\* fetch_and_store_version once get_register_entry_version is over: a 404
\* and an ApiClientError end the task, as does a payload that does not
\* validate; else the payload is written in a transaction of its own.
Answered(task, payload) ==
    IF payload.t = "raise" \/ ~Validates(payload) THEN [task EXCEPT !.at = "over"]
    ELSE [task EXCEPT !.at = "write", !.key = KeyOf("register_entry_versions", payload)]

VersionInfo(version) == JObj([version |-> JInt(version)])

VersionEntries ==
    {JObj([registerNumber |-> rn, version |-> version,
           registerEntryDetails |-> details, accountDetails |-> account]) :
        rn \in {Null, R1},
        version \in {Null, JInt(1)},
        details \in {Null, VersionInfo(1), VersionInfo(2)},
        account \in {Null, JObj([registerEntryVersions |->
                                    JList(<<VersionInfo(1), VersionInfo(2)>>)])}}

VersionResponses ==
    {Raise("ResourceNotFoundError"), Raise("ApiClientError"), EmptyObj}
    \cup {JObj([registerNumber |-> rn, version |-> version]) :
             rn \in {R1, R2}, version \in {Null, JInt(1), JInt(2)}}

\* The numbers of the tasks of an entry.
TaskNumbers == UNION {DOMAIN Mentions(entry) : entry \in VersionEntries}

InitVersions ==
    /\ \E limit \in 1..MaxWorkers :
          ing = [producer |-> "", loop |-> "next", entry |-> Null, entries |-> 0,
                 limit |-> limit, tasks |-> <<>>]
    /\ req = NoReq /\ pag = NoPag /\ pre = NoPre
    /\ Still

\* The iterator yields an entry: one that does not validate is skipped, any
\* other is stored in a transaction.
Listed(entry) ==
    /\ ing.producer = ""
    /\ ing.loop = "next"
    /\ ing.entries < MaxEntries
    /\ ing' = IF Validates(entry)
              THEN [ing EXCEPT !.entries = @ + 1, !.loop = "entry", !.entry = entry]
              ELSE [ing EXCEPT !.entries = @ + 1]
    /\ UNCHANGED <<model, req, pag, pre>>

\* The entry's transaction is over: persist_node raised, returned None, or
\* returned the id and the version tasks are created.
EntryStored(outcome) ==
    /\ ing.producer = ""
    /\ ing.loop = "entry"
    /\ ing' = IF outcome = "raised" THEN [ing EXCEPT !.loop = "over", !.entry = Null]
              ELSE IF outcome = "None" \/ VersionTasks(ing.entry) = <<>>
              THEN [ing EXCEPT !.loop = "next", !.entry = Null]
              ELSE [ing EXCEPT !.loop = "versions", !.entry = Null,
                               !.tasks = VersionTasks(ing.entry)]
    /\ UNCHANGED <<model, req, pag, pre>>

\* async with semaphore: a task starts its request.
Acquired(n) ==
    /\ ing.producer = ""
    /\ n \in DOMAIN ing.tasks
    /\ ing.tasks[n].at = "semaphore"
    /\ Cardinality(Fetching(ing)) < ing.limit
    /\ ing' = [ing EXCEPT !.tasks[n].at = "fetch"]
    /\ UNCHANGED <<model, req, pag, pre>>

\* The request of a task is answered.
Fetched(n, payload) ==
    /\ ing.producer = ""
    /\ n \in DOMAIN ing.tasks
    /\ ing.tasks[n].at = "fetch"
    /\ ing' = [ing EXCEPT !.tasks[n] = Answered(@, payload)]
    /\ UNCHANGED <<model, req, pag, pre>>

\* The transaction of a task is over: committed, or persist_node raised.
Stored(n, at) ==
    /\ ing.producer = ""
    /\ n \in DOMAIN ing.tasks
    /\ ing.tasks[n].at = "write"
    /\ ing' = [ing EXCEPT !.tasks[n].at = at, !.tasks[n].key = Null]
    /\ UNCHANGED <<model, req, pag, pre>>

\* for fut in asyncio.as_completed(version_tasks): the exception of a task
\* leaves run_ingestion, the other tasks going on; when every task is over
\* the next entry is taken.
Completed ==
    /\ ing.producer = ""
    /\ ing.loop = "versions"
    /\ \/ /\ \E n \in DOMAIN ing.tasks : ing.tasks[n].at = "raised"
          /\ ing' = [ing EXCEPT !.loop = "over"]
       \/ /\ \A n \in DOMAIN ing.tasks : ing.tasks[n].at = "over"
          /\ ing' = [ing EXCEPT !.loop = "next", !.tasks = <<>>]
    /\ UNCHANGED <<model, req, pag, pre>>

NextVersions ==
    \/ \E entry \in VersionEntries : Listed(entry)
    \/ \E outcome \in {"id", "None", "raised"} : EntryStored(outcome)
    \/ \E n \in TaskNumbers : Acquired(n)
    \/ \E n \in TaskNumbers, payload \in VersionResponses : Fetched(n, payload)
    \/ \E n \in TaskNumbers, at \in {"over", "raised"} : Stored(n, at)
    \/ Completed

\* A run of either orchestration.
SpecKeys == (InitRun \/ InitVersions) /\ [][NextRun \/ NextVersions]_vars

----------------------------------------------------------------------------
(* C23: one writer per root natural key *)

\* The write transactions in progress, each with the key it targets.
InProgress(r) ==
    IF r.producer # ""
    THEN {[by |-> c, key |-> KeyOf("register_entry", r.consumers[c].item.detail)] :
             c \in {c \in DOMAIN r.consumers : r.consumers[c].at = "write"}}
    ELSE (IF r.loop = "entry" THEN {[by |-> 0, key |-> KeyOf("register_entries", r.entry)]}
          ELSE {})
         \cup {[by |-> n, key |-> r.tasks[n].key] :
                  n \in {n \in DOMAIN r.tasks : r.tasks[n].at = "write"}}

KeyGiven(key) ==
    /\ Truthy(key.registerNumber)
    /\ key.root = "register_entry_versions" => key.version # Null

SingleWriter(r) ==
    \A a, b \in InProgress(r) : a.by # b.by /\ KeyGiven(a.key) => a.key # b.key

\* Every version task in its transaction writes the version it asked for.
Faithful(r) ==
    r.producer = "" =>
        \A n \in DOMAIN r.tasks :
            r.tasks[n].at = "write" =>
                /\ r.tasks[n].key.registerNumber = r.tasks[n].register_number
                /\ r.tasks[n].key.version = JInt(r.tasks[n].version)

C23_SingleWriterOfFaithful == Faithful(ing) => SingleWriter(ing)

\* Two transactions in progress at the same time, each with a key.
C23_Witness ==
    /\ Faithful(ing)
    /\ \E a, b \in InProgress(ing) : a.by # b.by /\ KeyGiven(a.key) /\ KeyGiven(b.key)

====
